---- MODULE Spec2Model ----
(***************************************************************************)
(* A model of beancountr's front end: the chumsky lexer, the expression    *)
(* and statement parsers built from its tokens, and the entry point        *)
(* parse_str (beancountr/src/parser.rs).                                   *)
(*                                                                         *)
(* A source text is a sequence of characters.  A character is a one-       *)
(* character string; the few non-ASCII characters are named by their code  *)
(* point.  Offsets are 0-based as in the Rust code; sequence indexes are   *)
(* 1-based, so the character at offset k is s[k + 1].                      *)
(***************************************************************************)
EXTENDS Integers, Sequences, FiniteSets, TLC

(***************************************************************************)
(* Characters and the std::char predicates the lexer uses.                 *)
(***************************************************************************)
EAcute == "U+00E9"
CJKZhong == "U+4E2D"
Euro == "U+20AC"

Digits == {"0", "1", "2", "3", "4", "5", "6", "7", "8", "9"}
DigitSeq == <<"0", "1", "2", "3", "4", "5", "6", "7", "8", "9">>
AsciiLower ==
    {"a", "b", "c", "d", "e", "f", "g", "h", "i", "j", "k", "l", "m",
     "n", "o", "p", "q", "r", "s", "t", "u", "v", "w", "x", "y", "z"}
AsciiUpper ==
    {"A", "B", "C", "D", "E", "F", "G", "H", "I", "J", "K", "L", "M",
     "N", "O", "P", "Q", "R", "S", "T", "U", "V", "W", "X", "Y", "Z"}
AsciiAlpha == AsciiLower \cup AsciiUpper
AsciiAlnum == AsciiAlpha \cup Digits

\* char::is_lowercase, char::is_alphabetic, char::is_alphanumeric
Lowercase == AsciiLower \cup {EAcute}
Alphabetic == AsciiAlpha \cup {EAcute, CJKZhong}
Alphanumeric == Alphabetic \cup Digits

\* The line terminators of chumsky's text::newline besides "\r\n" and "\n".
VTab == "U+000B"
FormFeed == "U+000C"
NextLine == "U+0085"
LineSep == "U+2028"
ParaSep == "U+2029"

\* char::is_whitespace, which chumsky's padded() skips
Whitespace == {" ", "\t", "\n", "\r", VTab, FormFeed, NextLine, LineSep, ParaSep}

\* The length of a character's UTF-8 encoding, in bytes.
Utf8Len(c) ==
    IF c \in {EAcute, NextLine} THEN 2
    ELSE IF c \in {CJKZhong, Euro, LineSep, ParaSep} THEN 3
    ELSE 1

is_uppercase_or_caseless(c) ==
    c \in AsciiUpper \/ (c \in Alphabetic /\ c \notin Lowercase)

UpperOrCaseless == {c \in Alphabetic : is_uppercase_or_caseless(c)}

(***************************************************************************)
(* Option values and parse results.                                        *)
(***************************************************************************)
None == [some |-> FALSE]
Some(x) == [some |-> TRUE, v |-> x]

\* A Decimal is a mantissa m and a scale sc: the value m / 10^sc.
Dec(m, sc) == [m |-> m, sc |-> sc]

\* The payload of a token or of a metadata value.  Every payload has the same
\* fields, of which a kind uses one: s a text, d a Decimal, ymd a date, b a
\* boolean.
NoVal == [s |-> <<>>, d |-> Dec(0, 0), ymd |-> <<>>, b |-> FALSE]
StrVal(s) == [NoVal EXCEPT !.s = s]
DecVal(d) == [NoVal EXCEPT !.d = d]
DateVal(ymd) == [NoVal EXCEPT !.ymd = ymd]
BoolVal(b) == [NoVal EXCEPT !.b = b]

\* A failed alternative, and a token of kind t with payload v ending before
\* index n.
NoTok == [ok |-> FALSE]
Tok(t, v, n) == [ok |-> TRUE, t |-> t, v |-> v, n |-> n]

CharAt(s, p) == IF p >= 1 /\ p <= Len(s) THEN s[p] ELSE "EOF"

\* repeated() over a character class: the first index at or after p whose
\* character is not in S.
RECURSIVE Scan(_, _, _)
Scan(s, p, S) ==
    IF p <= Len(s) /\ s[p] \in S THEN Scan(s, p + 1, S) ELSE p

\* The text s[p .. n-1].
Text(s, p, n) == SubSeq(s, p, n - 1)

DigitVal(c) == (CHOOSE k \in 1..10 : DigitSeq[k] = c) - 1

RECURSIVE DigitsToNat(_)
DigitsToNat(ds) ==
    IF ds = <<>> THEN 0
    ELSE 10 * DigitsToNat(SubSeq(ds, 1, Len(ds) - 1)) + DigitVal(ds[Len(ds)])

(***************************************************************************)
(* The lexer's token alternatives, in the order of its choice.             *)
(***************************************************************************)

\* chumsky text::ident: [A-Za-z_][A-Za-z0-9_]*; 0 when there is none.
Ident(s, p) ==
    IF CharAt(s, p) \in AsciiAlpha \cup {"_"}
    THEN Scan(s, p + 1, AsciiAlnum \cup {"_"})
    ELSE 0

\* text::keyword(w) for each row <<w, token>> of a table: the identifier at p
\* must be exactly w.
KeywordIn(table, s, p) ==
    LET n == Ident(s, p) IN
    IF n = 0 THEN NoTok
    ELSE LET hits == {k \in 1..Len(table) : table[k][1] = Text(s, p, n)} IN
         IF hits = {} THEN NoTok
         ELSE Tok(table[CHOOSE k \in hits : TRUE][2], NoVal, n)

DirectiveKeywords ==
    << <<<<"o", "p", "e", "n">>, "Open">>,
       <<<<"c", "l", "o", "s", "e">>, "Close">>,
       <<<<"c", "o", "m", "m", "o", "d", "i", "t", "y">>, "CommodityDirective">>,
       <<<<"t", "x", "n">>, "Transaction">>,
       <<<<"b", "a", "l", "a", "n", "c", "e">>, "Balance">>,
       <<<<"p", "a", "d">>, "Pad">>,
       <<<<"n", "o", "t", "e">>, "Note">>,
       <<<<"d", "o", "c", "u", "m", "e", "n", "t">>, "Document">>,
       <<<<"p", "r", "i", "c", "e">>, "Price">>,
       <<<<"e", "v", "e", "n", "t">>, "Event">>,
       <<<<"q", "u", "e", "r", "y">>, "Query">>,
       <<<<"c", "u", "s", "t", "o", "m">>, "Custom">> >>

CommandKeywords ==
    << <<<<"o", "p", "t", "i", "o", "n">>, "Option">>,
       <<<<"p", "l", "u", "g", "i", "n">>, "Plugin">>,
       <<<<"i", "n", "c", "l", "u", "d", "e">>, "Include">>,
       <<<<"p", "u", "s", "h", "t", "a", "g">>, "PushTag">>,
       <<<<"p", "o", "p", "t", "a", "g">>, "PopTag">> >>

LexDirective(s, p) == KeywordIn(DirectiveKeywords, s, p)
LexCommand(s, p) == KeywordIn(CommandKeywords, s, p)

\* four_digits / two_digits: exactly k digits starting at p.
DigitsAt(s, p, k) == \A i \in p..(p + k - 1) : CharAt(s, i) \in Digits

IsLeapYear(y) == (y % 4 = 0 /\ y % 100 # 0) \/ y % 400 = 0

DaysInMonth(y, m) ==
    IF m = 2 THEN (IF IsLeapYear(y) THEN 29 ELSE 28)
    ELSE IF m \in {4, 6, 9, 11} THEN 30 ELSE 31

\* chrono NaiveDate::from_ymd_opt(...).is_some()
ValidYmd(y, m, d) == m \in 1..12 /\ d >= 1 /\ d <= DaysInMonth(y, m)

\* YYYY<sep>MM<sep>DD at p.
DateShape(s, p, sep) ==
    /\ DigitsAt(s, p, 4)
    /\ CharAt(s, p + 4) = sep
    /\ DigitsAt(s, p + 5, 2)
    /\ CharAt(s, p + 7) = sep
    /\ DigitsAt(s, p + 8, 2)

LexDate(s, p) ==
    IF DateShape(s, p, "-") \/ DateShape(s, p, "/")
    THEN LET y == DigitsToNat(Text(s, p, p + 4))
             m == DigitsToNat(Text(s, p + 5, p + 7))
             d == DigitsToNat(Text(s, p + 8, p + 10))
         IN IF ValidYmd(y, m, d) THEN Tok("Date", DateVal(<<y, m, d>>), p + 10) ELSE NoTok
    ELSE NoTok

\* The digits before the first comma.
UpToComma(cs) == SubSeq(cs, 1, Scan(cs, 1, Digits) - 1)

RemoveCommas(cs) == SelectSeq(cs, LAMBDA c : c # ",")

\* A digit, then digits and commas, then an optional '.' and digits;
\* Decimal::from_str of the text with its commas removed.
LexNumber(s, p) ==
    IF CharAt(s, p) \notin Digits THEN NoTok
    ELSE LET a == Scan(s, p + 1, Digits \cup {","})
             n == IF CharAt(s, a) = "." THEN Scan(s, a + 1, Digits) ELSE a
             int == RemoveCommas(Text(s, p, a))
             frac == IF n > a THEN Text(s, a + 1, n) ELSE <<>>
         IN Tok("Decimal", DecVal(Dec(DigitsToNat(int \o frac), Len(frac))), n)

Escapes == {"\\", "/", "\"", "n", "r", "t"}

Unescape(c) ==
    IF c = "n" THEN "\n" ELSE IF c = "r" THEN "\r" ELSE IF c = "t" THEN "\t" ELSE c

\* The characters of a string literal's body from p on: plain characters and
\* escapes, up to the first character that is neither.
RECURSIVE StringBody(_, _, _)
StringBody(s, p, acc) ==
    IF p > Len(s) THEN [n |-> p, v |-> acc]
    ELSE IF s[p] \notin {"\\", "\""} THEN StringBody(s, p + 1, Append(acc, s[p]))
    ELSE IF s[p] = "\\" /\ CharAt(s, p + 1) \in Escapes
         THEN StringBody(s, p + 2, Append(acc, Unescape(s[p + 1])))
    ELSE [n |-> p, v |-> acc]

LexString(s, p) ==
    IF CharAt(s, p) # "\"" THEN NoTok
    ELSE LET b == StringBody(s, p + 1, <<>>) IN
         IF CharAt(s, b.n) = "\"" THEN Tok("String", StrVal(b.v), b.n + 1) ELSE NoTok

BoolKeywords ==
    << <<<<"T", "R", "U", "E">>, TRUE>>, <<<<"F", "A", "L", "S", "E">>, FALSE>> >>

LexBool(s, p) ==
    LET k == KeywordIn(BoolKeywords, s, p) IN
    IF k.ok THEN Tok("Bool", BoolVal(k.t), k.n) ELSE NoTok

LexNull(s, p) == KeywordIn(<< <<<<"N", "U", "L", "L">>, "Null">> >>, s, p)

AccountChars == Alphanumeric \cup {"-"}

\* account_name (':' account_name)*: separated_by takes a ':' only together
\* with the name after it.  The index after the last name; p when there is
\* no name at p.
RECURSIVE AccountNames(_, _)
AccountNames(s, p) ==
    IF CharAt(s, p) \in UpperOrCaseless \cup Digits
    THEN LET n == Scan(s, p + 1, AccountChars) IN
         IF CharAt(s, n) = ":" /\ CharAt(s, n + 1) \in UpperOrCaseless \cup Digits
         THEN AccountNames(s, n + 1)
         ELSE n
    ELSE p

\* The token holds the parts; the model holds them joined by ':', which is
\* the matched text and what Account::from makes of them.
LexAccount(s, p) ==
    IF CharAt(s, p) \notin UpperOrCaseless THEN NoTok
    ELSE LET a == Scan(s, p + 1, AccountChars) IN
         IF CharAt(s, a) # ":" THEN NoTok
         ELSE LET n == AccountNames(s, a + 1) IN
              IF n > a + 1 THEN Tok("Account", StrVal(Text(s, p, n)), n) ELSE NoTok

CommodityChars == UpperOrCaseless \cup Digits \cup {".", "_", "-", "'"}

LexCommodity(s, p) ==
    LET c == CharAt(s, p)
        n == Scan(s, p + 1, CommodityChars)
        shape == /\ n > p + 1
                 /\ \/ c \in UpperOrCaseless
                    \/ /\ c = "/"
                       /\ \E i \in (p + 1)..(n - 1) : s[i] \in Alphabetic
    IN IF shape /\ s[n - 1] \in UpperOrCaseless \cup Digits
       THEN Tok("Commodity", StrVal(Text(s, p, n)), n)
       ELSE NoTok

LexCapital(s, p) ==
    IF is_uppercase_or_caseless(CharAt(s, p))
    THEN Tok("Capital", StrVal(<<CharAt(s, p)>>), p + 1)
    ELSE NoTok

TagChars == Alphanumeric \cup {"-", "_", "/", "."}

Prefixed(kind, sigil, s, p) ==
    LET n == Scan(s, p + 1, TagChars) IN
    IF CharAt(s, p) = sigil /\ n > p + 1
    THEN Tok(kind, StrVal(Text(s, p + 1, n)), n)
    ELSE NoTok

LexTag(s, p) == Prefixed("Tag", "#", s, p)
LexLink(s, p) == Prefixed("Link", "^", s, p)

LexKey(s, p) ==
    IF CharAt(s, p) \notin Lowercase THEN NoTok
    ELSE LET n == Scan(s, p + 1, Alphanumeric \cup {"-", "_"}) IN
         IF CharAt(s, n) = ":" THEN Tok("Key", StrVal(Text(s, p, n)), n + 1) ELSE NoTok

Punctuation ==
    << <<<<",">>, "Comma">>,
       <<<<"@", "@">>, "AtAt">>,
       <<<<"@">>, "At">>,
       <<<<"!">>, "Exclamation">>,
       <<<<"*">>, "Asterisk">>,
       <<<<"(">>, "LeftParen">>,
       <<<<")">>, "RightParen">>,
       <<<<"{", "{">>, "LeftCurlCurl">>,
       <<<<"{">>, "LeftCurl">>,
       <<<<"}", "}">>, "RightCurlCurl">>,
       <<<<"}">>, "RightCurl">>,
       <<<<"/">>, "Slash">>,
       <<<<"-">>, "Minus">>,
       <<<<"+">>, "Plus">>,
       <<<<"|">>, "Pipe">>,
       <<<<"~">>, "Tilde">> >>

\* just(w) at p
Just(w, s, p) == p + Len(w) - 1 <= Len(s) /\ Text(s, p, p + Len(w)) = w

LexPunctuation(s, p) ==
    LET hits == {k \in 1..Len(Punctuation) : Just(Punctuation[k][1], s, p)} IN
    IF hits = {} THEN NoTok
    ELSE LET k == CHOOSE i \in hits : \A j \in hits : i <= j IN
         Tok(Punctuation[k][2], NoVal, p + Len(Punctuation[k][1]))

\* chumsky text::newline: "\r\n", "\n", or one of the other line terminators,
\* a lone carriage return among them.
LexNewline(s, p) ==
    IF CharAt(s, p) = "\r" /\ CharAt(s, p + 1) = "\n" THEN Tok("Newline", NoVal, p + 2)
    ELSE IF CharAt(s, p) \in {"\n", VTab, FormFeed, "\r", NextLine, LineSep, ParaSep}
         THEN Tok("Newline", NoVal, p + 1)
    ELSE NoTok

\* a.or(b) for the results of both at the same index
OrTok(a, b) == IF a.ok THEN a ELSE b

\* choice((...)): the first alternative that succeeds at p.
TokenAt(s, p) ==
    OrTok(LexDirective(s, p), OrTok(LexCommand(s, p), OrTok(LexDate(s, p),
    OrTok(LexNumber(s, p), OrTok(LexString(s, p), OrTok(LexBool(s, p),
    OrTok(LexNull(s, p), OrTok(LexAccount(s, p), OrTok(LexCommodity(s, p),
    OrTok(LexCapital(s, p), OrTok(LexTag(s, p), OrTok(LexLink(s, p),
    OrTok(LexKey(s, p), OrTok(LexPunctuation(s, p), LexNewline(s, p)))))))))))))))

(***************************************************************************)
(* The lexer: tokens with their spans, padding, comments and recovery.     *)
(***************************************************************************)

\* token.recover_with(skip_then_retry_until([])): when no alternative matches
\* at p, skip one character at a time and retry, up to the end of input.  The
\* recovered token carries the error of the first failure.
RECURSIVE RetryFrom(_, _)
RECURSIVE RetryStep(_, _, _)
RetryStep(t, s, p) == IF t.ok THEN t ELSE RetryFrom(s, p + 1)

RetryFrom(s, p) ==
    IF p > Len(s) THEN NoTok ELSE RetryStep(TokenAt(s, p), s, p)

\* A token with the mark of whether recovery produced it.
Marked(t, recovered) ==
    IF t.ok
    THEN [ok |-> TRUE, t |-> t.t, v |-> t.v, n |-> t.n, recovered |-> recovered]
    ELSE [ok |-> FALSE]

OrRecover(t, s, p) ==
    IF t.ok THEN Marked(t, FALSE) ELSE Marked(RetryFrom(s, p + 1), TRUE)

TokenRecover(s, p) == OrRecover(TokenAt(s, p), s, p)

\* The index of the first "\n" at or after p; 0 when there is none.
RECURSIVE FindNewline(_, _)
FindNewline(s, p) ==
    IF p > Len(s) THEN 0
    ELSE IF s[p] = "\n" THEN p ELSE FindNewline(s, p + 1)

\* just(';').then(take_until(just('\n'))).padded(): whitespace, a ';', the
\* text through the next "\n", whitespace.  0 when it does not match.
Comment(s, p) ==
    LET q == Scan(s, p, Whitespace)
        nl == FindNewline(s, q + 1)
    IN IF CharAt(s, q) = ";" /\ nl # 0 THEN Scan(s, nl + 1, Whitespace) ELSE 0

\* comment.repeated()
RECURSIVE Comments(_, _)
Comments(s, p) ==
    LET n == Comment(s, p) IN
    IF n = 0 THEN p ELSE Comments(s, n)

SafeWhitespace == {" ", "\r", "\t"}

\* One iteration of the lexer's repetition: comments, safe whitespace, a
\* token with its span, safe whitespace, comments.  The span is taken around
\* the recovering token parser, so it starts at the first skipped character.
Spanned(t, s, b) ==
    IF t.ok
    THEN [ok |-> TRUE,
          tok |-> [t |-> t.t, v |-> t.v, start |-> b - 1, end |-> t.n - 1],
          recovered |-> t.recovered,
          n |-> Comments(s, Scan(s, t.n, SafeWhitespace))]
    ELSE [ok |-> FALSE]

TokenFrom(s, b) == Spanned(TokenRecover(s, b), s, b)

LexItem(s, p) == TokenFrom(s, Scan(s, Comments(s, p), SafeWhitespace))

\* An error record; the model keeps the stage that raised it.
LexError == [stage |-> "lex"]
ParseError == [stage |-> "parse"]

\* (...).repeated().then_ignore(end()) under parse_recovery: the repetition
\* stops at the first iteration that fails and rewinds to its start; end()
\* then fails unless the whole input was consumed.
RECURSIVE LexLoop(_, _, _, _)
RECURSIVE LexStep(_, _, _, _, _)
LexStep(it, s, p, toks, errs) ==
    IF it.ok
    THEN LexLoop(s, it.n, Append(toks, it.tok),
                 IF it.recovered THEN Append(errs, LexError) ELSE errs)
    ELSE IF p > Len(s)
         THEN [tokens |-> Some(toks), errs |-> errs]
         ELSE [tokens |-> None, errs |-> Append(errs, LexError)]

LexLoop(s, p, toks, errs) == LexStep(LexItem(s, p), s, p, toks, errs)

\* A lexer whose repetition needs at least one token.
LexAtLeastOne(s) ==
    IF s = <<>> THEN [tokens |-> None, errs |-> <<LexError>>]
    ELSE LexLoop(s, 1, <<>>, <<>>)

lexer(s) == LexLoop(s, 1, <<>>, <<>>)

\* A token without its span.
Bare(tok) == [t |-> tok.t, v |-> tok.v]
BareTokens(toks) == [i \in 1..Len(toks) |-> Bare(toks[i])]

(***************************************************************************)
(* Decimal arithmetic (rust_decimal) on mantissa and scale.                *)
(***************************************************************************)
RECURSIVE Pow10(_)
Pow10(k) == IF k = 0 THEN 1 ELSE 10 * Pow10(k - 1)

MaxOf(a, b) == IF a >= b THEN a ELSE b
Abs(a) == IF a < 0 THEN -a ELSE a

\* The mantissa of d at the scale sc >= d.sc.
Rescale(d, sc) == d.m * Pow10(sc - d.sc)

\* Decimal's PartialEq compares values, not representations: 2.0200 == 2.02.
DecEq(a, b) ==
    LET sc == MaxOf(a.sc, b.sc) IN Rescale(a, sc) = Rescale(b, sc)

DecNeg(a) == Dec(-a.m, a.sc)

DecAdd(a, b) ==
    LET sc == MaxOf(a.sc, b.sc) IN Dec(Rescale(a, sc) + Rescale(b, sc), sc)

DecSub(a, b) == DecAdd(a, DecNeg(b))

DecMul(a, b) == Dec(a.m * b.m, a.sc + b.sc)

\* The quotient's digits are computed until the division is exact, to at most
\* DivScaleCap fractional digits and a dividend of nine digits.
DivScaleCap == 4

RECURSIVE DivAt(_, _, _)
DivAt(num, den, k) ==
    IF (num * Pow10(k)) % den = 0 \/ k >= DivScaleCap \/ num * Pow10(k) >= Pow10(8)
    THEN Dec((num * Pow10(k)) \div den, k)
    ELSE DivAt(num, den, k + 1)

\* a / b for b # 0; Decimal's Div panics on a zero divisor.
DecDiv(a, b) ==
    LET sc == MaxOf(a.sc, b.sc)
        num == Rescale(a, sc)
        den == Rescale(b, sc)
        q == DivAt(Abs(num), Abs(den), 0)
    IN IF (num < 0) # (den < 0) THEN DecNeg(q) ELSE q

(***************************************************************************)
(* Parsers over the token stream ts.  A result is a success with a value   *)
(* and the next index, a failure, or a panic raised by a closure while     *)
(* parsing.  A sequence a.then(b).then(c) is a chain of steps, each taking *)
(* the result r so far, whose value is the tuple of the values parsed.     *)
(***************************************************************************)
PFail == [ok |-> FALSE, panic |-> FALSE]
PPanic == [ok |-> FALSE, panic |-> TRUE]
POk(v, n) == [ok |-> TRUE, panic |-> FALSE, v |-> v, n |-> n]

Kind(ts, i) == IF i >= 1 /\ i <= Len(ts) THEN ts[i].t ELSE "EndOfInput"

\* The start of a chain at index i.
Begin(i) == POk(<<>>, i)

\* r.then(q) for the result q of the parser that ran after r
Push(r, q) == IF q.ok THEN POk(Append(r.v, q.v), q.n) ELSE q

\* .then(select! { Token::K(v) => v })
ThenSel(r, ts, kind) ==
    IF ~r.ok THEN r
    ELSE IF Kind(ts, r.n) = kind THEN POk(Append(r.v, ts[r.n].v), r.n + 1)
    ELSE PFail

\* .then_ignore(just(Token::K))
ThenJust(r, ts, kind) ==
    IF ~r.ok THEN r
    ELSE IF Kind(ts, r.n) = kind THEN POk(r.v, r.n + 1)
    ELSE PFail

\* .then(string.or_not())
ThenOptString(r, ts) ==
    IF ~r.ok THEN r
    ELSE IF Kind(ts, r.n) = "String" THEN POk(Append(r.v, Some(ts[r.n].v.s)), r.n + 1)
    ELSE POk(Append(r.v, None), r.n)

\* An end of line that any token ends.
AnyEnd(ts, i) == POk(NoVal, i)

\* choice((just(Token::Newline).to(()), end()))
end_of_line(ts, i) ==
    IF Kind(ts, i) = "Newline" THEN POk(NoVal, i + 1)
    ELSE IF i > Len(ts) THEN POk(NoVal, i)
    ELSE PFail

\* r.then_ignore(q) for the result q of the parser that ran after r
Skip(r, q) == IF q.ok THEN POk(r.v, q.n) ELSE q

\* .then_ignore(end_of_line)
ThenEol(r, ts) == IF ~r.ok THEN r ELSE Skip(r, end_of_line(ts, r.n))

RECURSIVE ExprSum(_, _)
RECURSIVE SumTail(_, _, _)
RECURSIVE SumStep(_, _, _, _)
RECURSIVE ExprProduct(_, _)
RECURSIVE ProductTail(_, _, _)
RECURSIVE ProductStep(_, _, _, _)
RECURSIVE ExprUnary(_, _)
RECURSIVE ExprAtom(_, _)

\* expr.delimited_by(LeftParen, RightParen), for the result e of expr
CloseParen(e, ts) ==
    IF ~e.ok THEN e
    ELSE IF Kind(ts, e.n) = "RightParen" THEN POk(e.v, e.n + 1)
    ELSE PFail

\* atom: a Decimal, or an expression between parentheses
ExprAtom(ts, i) ==
    IF Kind(ts, i) = "Decimal" THEN POk(ts[i].v.d, i + 1)
    ELSE IF Kind(ts, i) = "LeftParen" THEN CloseParen(ExprSum(ts, i + 1), ts)
    ELSE PFail

\* A sign that is dropped.
SignIgnored(u, minus) == u

Signed(u, minus) ==
    IF ~u.ok THEN u ELSE POk(IF minus THEN DecNeg(u.v) ELSE u.v, u.n)

\* unary: signs folded from the right onto the atom
ExprUnary(ts, i) ==
    IF Kind(ts, i) \in {"Minus", "Plus"}
    THEN Signed(ExprUnary(ts, i + 1), Kind(ts, i) = "Minus")
    ELSE ExprAtom(ts, i)

\* product: unary (('*' | '/') unary)*, folded from the left; u is the
\* operand after the operator at i.
ProductStep(u, ts, i, lhs) ==
    IF u.panic THEN u
    ELSE IF ~u.ok THEN POk(lhs, i)
    ELSE IF Kind(ts, i) = "Asterisk" THEN ProductTail(ts, u.n, DecMul(lhs, u.v))
    ELSE IF u.v.m = 0 THEN PPanic
    ELSE ProductTail(ts, u.n, DecDiv(lhs, u.v))

ProductTail(ts, i, lhs) ==
    IF Kind(ts, i) \in {"Asterisk", "Slash"}
    THEN ProductStep(ExprUnary(ts, i + 1), ts, i, lhs)
    ELSE POk(lhs, i)

ProductFrom(u, ts) == IF ~u.ok THEN u ELSE ProductTail(ts, u.n, u.v)

ExprProduct(ts, i) == ProductFrom(ExprUnary(ts, i), ts)

\* sum: product (('+' | '-') product)*, folded from the left
SumStep(r, ts, i, lhs) ==
    IF r.panic THEN r
    ELSE IF ~r.ok THEN POk(lhs, i)
    ELSE IF Kind(ts, i) = "Plus" THEN SumTail(ts, r.n, DecAdd(lhs, r.v))
    ELSE SumTail(ts, r.n, DecSub(lhs, r.v))

SumTail(ts, i, lhs) ==
    IF Kind(ts, i) \in {"Plus", "Minus"}
    THEN SumStep(ExprProduct(ts, i + 1), ts, i, lhs)
    ELSE POk(lhs, i)

SumFrom(r, ts) == IF ~r.ok THEN r ELSE SumTail(ts, r.n, r.v)

ExprSum(ts, i) == SumFrom(ExprProduct(ts, i), ts)

expr_parser(ts, i) == ExprSum(ts, i)

\* .then(expr_parser())
ThenExpr(r, ts) == IF ~r.ok THEN r ELSE Push(r, expr_parser(ts, r.n))

(***************************************************************************)
(* The statement parser's helpers.                                         *)
(***************************************************************************)

\* commodity.separated_by(just(Token::Comma)): a ',' is taken only together
\* with the commodity after it.
RECURSIVE commodity_list(_, _, _)
commodity_list(ts, i, acc) ==
    IF Kind(ts, i) # "Commodity" THEN POk(acc, i)
    ELSE IF Kind(ts, i + 1) = "Comma" /\ Kind(ts, i + 2) = "Commodity"
         THEN commodity_list(ts, i + 2, Append(acc, ts[i].v.s))
    ELSE POk(Append(acc, ts[i].v.s), i + 1)

ThenCommodityList(r, ts) ==
    IF ~r.ok THEN r ELSE Push(r, commodity_list(ts, r.n, <<>>))

Amount(number, commodity) == [number |-> number, commodity |-> commodity]

\* the closure of amount
AmountOf(r) == IF ~r.ok THEN r ELSE POk(Amount(r.v[1], r.v[2].s), r.n)

\* expr_parser().then(commodity)
amount(ts, i) == AmountOf(ThenSel(ThenExpr(Begin(i), ts), ts, "Commodity"))

ThenAmount(r, ts) == IF ~r.ok THEN r ELSE Push(r, amount(ts, r.n))

\* a.or(b) for the results of both at the same index: b counts when a
\* failed without a panic.
OrElse(a, b) == IF a.ok \/ a.panic THEN a ELSE b

NoTolerance(a) ==
    IF ~a.ok THEN a ELSE POk([amount |-> a.v, tolerance |-> None], a.n)

WithTolerance(r) ==
    IF ~r.ok THEN r
    ELSE POk([amount |-> Amount(r.v[1], r.v[3].s), tolerance |-> Some(r.v[2])], r.n)

\* amount, or: expr '~' expr commodity
amount_tolerance(ts, i) ==
    OrElse(NoTolerance(amount(ts, i)),
           WithTolerance(ThenSel(ThenExpr(ThenJust(ThenExpr(Begin(i), ts), ts, "Tilde"),
                                          ts), ts, "Commodity")))

ThenAmountTolerance(r, ts) ==
    IF ~r.ok THEN r ELSE Push(r, amount_tolerance(ts, r.n))

\* A Metadata value: its variant and a payload.
Metadata(t, v) == [t |-> t, v |-> v]

MetadataVariant(kind) ==
    IF kind = "Tag" THEN "Tags" ELSE IF kind = "Null" THEN "None" ELSE kind

AmountValue(a) ==
    IF ~a.ok THEN a
    ELSE POk(Metadata("Amount", [NoVal EXCEPT !.d = a.v.number, !.s = a.v.commodity]),
             a.n)

NumberValue(e) == IF ~e.ok THEN e ELSE POk(Metadata("Number", DecVal(e.v)), e.n)

\* string | account | date | commodity | tag | bool | null | amount | expr
metadata_value(ts, i) ==
    IF Kind(ts, i) \in {"String", "Account", "Date", "Commodity", "Tag", "Bool", "Null"}
    THEN POk(Metadata(MetadataVariant(Kind(ts, i)), ts[i].v), i + 1)
    ELSE OrElse(AmountValue(amount(ts, i)), NumberValue(expr_parser(ts, i)))

ThenMetadataValue(r, ts) ==
    IF ~r.ok THEN r ELSE Push(r, metadata_value(ts, r.n))

KeyValue(r) == IF ~r.ok THEN r ELSE POk([k |-> r.v[1].s, v |-> r.v[2]], r.n)

\* A metadata line that only a Newline ends.
NewlineEndedLine(ts, i) ==
    KeyValue(ThenJust(ThenMetadataValue(ThenSel(Begin(i), ts, "Key"), ts), ts, "Newline"))

\* Key metadata_value end_of_line
metadata_line(ts, i) ==
    KeyValue(ThenEol(ThenMetadataValue(ThenSel(Begin(i), ts, "Key"), ts), ts))

\* A MetadataMap (a HashMap) is a set of entries with distinct keys.
EmptyMeta == {}
MetaInsert(m, k, v) == {x \in m : x.k # k} \cup {[k |-> k, v |-> v]}
MetaHas(m, k) == \E x \in m : x.k = k
MetaGet(m, k) == (CHOOSE x \in m : x.k = k).v

\* metadata_line.repeated(), collected into a map
RECURSIVE metadata(_, _, _)
RECURSIVE MetadataStep(_, _, _, _)
MetadataStep(l, ts, i, acc) ==
    IF l.panic THEN l
    ELSE IF ~l.ok THEN POk(acc, i)
    ELSE metadata(ts, l.n, MetaInsert(acc, l.v.k, l.v.v))

metadata(ts, i, acc) == MetadataStep(metadata_line(ts, i), ts, i, acc)

\* .then(metadata.or_not())
ThenMetadata(r, ts) == IF ~r.ok THEN r ELSE Push(r, metadata(ts, r.n, EmptyMeta))

\* (Tag | Link).repeated(), each kind collected into its own set
RECURSIVE tags_links(_, _, _, _)
tags_links(ts, i, tags, links) ==
    IF Kind(ts, i) = "Tag" THEN tags_links(ts, i + 1, tags \cup {ts[i].v.s}, links)
    ELSE IF Kind(ts, i) = "Link"
         THEN tags_links(ts, i + 1, tags, links \cup {ts[i].v.s})
    ELSE POk([tags |-> tags, links |-> links], i)

ThenTagsLinks(r, ts) == IF ~r.ok THEN r ELSE Push(r, tags_links(ts, r.n, {}, {}))

\* impl From<String> for BookingMethod: the strings it matches.
BookingMethods ==
    << <<<<"S", "T", "R", "I", "C", "T">>, "Strict">>,
       <<<<"S", "T", "R", "I", "C", "T", "_", "W", "I", "T", "H", "_", "S", "I", "Z", "E">>,
         "StrictWithSize">>,
       <<<<"N", "O", "N", "E">>, "None">>,
       <<<<"A", "V", "E", "R", "A", "G", "E">>, "Average">>,
       <<<<"F", "I", "F", "O">>, "FirstInFirstout">>,
       <<<<"L", "I", "F", "O">>, "LastInFirstOut">>,
       <<<<"H", "I", "F", "O">>, "HighestInFirstOut">> >>

IsBookingMethod(str) == \E k \in 1..Len(BookingMethods) : BookingMethods[k][1] = str

\* Defined when IsBookingMethod(str); from() panics on any other string.
BookingMethodFrom(str) ==
    BookingMethods[CHOOSE k \in 1..Len(BookingMethods) : BookingMethods[k][1] = str][2]

(***************************************************************************)
(* Statements.  Each is its chain of steps and then its closure.           *)
(***************************************************************************)
Directive(date, kind, body, meta) ==
    [st |-> "Directive", date |-> date, kind |-> kind, body |-> body, meta |-> meta]

OptionOf(r) ==
    IF ~r.ok THEN r
    ELSE POk([st |-> "Option", key |-> r.v[1].s, value |-> r.v[2].s], r.n)

\* 'option' string string end_of_line
option(ts, i) ==
    OptionOf(ThenEol(ThenSel(ThenSel(ThenJust(Begin(i), ts, "Option"), ts, "String"),
                             ts, "String"), ts))

PluginOf(r) ==
    IF ~r.ok THEN r
    ELSE POk([st |-> "Plugin", name |-> r.v[1].s, arg |-> r.v[2]], r.n)

\* 'plugin' string string? end_of_line
plugin(ts, i) ==
    PluginOf(ThenEol(ThenOptString(ThenSel(ThenJust(Begin(i), ts, "Plugin"), ts, "String"),
                                   ts), ts))

IncludeOf(r) ==
    IF ~r.ok THEN r ELSE POk([st |-> "Include", path |-> r.v[1].s], r.n)

\* 'include' string end_of_line
include(ts, i) ==
    IncludeOf(ThenEol(ThenSel(ThenJust(Begin(i), ts, "Include"), ts, "String"), ts))

\* date.then_ignore(just(keyword))
Dated(ts, i, keyword) == ThenJust(ThenSel(Begin(i), ts, "Date"), ts, keyword)

\* .then_ignore(end_of_line).then(metadata.or_not())
LineThenMetadata(r, ts) == ThenMetadata(ThenEol(r, ts), ts)

\* The closure of open: the booking string, when there is one, is converted
\* into a BookingMethod.
OpenOf(r) ==
    IF ~r.ok THEN r
    ELSE IF r.v[4].some /\ ~IsBookingMethod(r.v[4].v) THEN PPanic
    ELSE POk(Directive(r.v[1].ymd, "Open",
                       [account |-> r.v[2].s, commodities |-> r.v[3],
                        booking_method |->
                            IF r.v[4].some THEN Some(BookingMethodFrom(r.v[4].v))
                            ELSE None],
                       r.v[5]), r.n)

\* date 'open' account commodity_list string? EOL metadata?
open_directive(ts, i) ==
    OpenOf(LineThenMetadata(
        ThenOptString(ThenCommodityList(ThenSel(Dated(ts, i, "Open"), ts, "Account"),
                                        ts), ts), ts))

CloseOf(r) ==
    IF ~r.ok THEN r
    ELSE POk(Directive(r.v[1].ymd, "Close", [account |-> r.v[2].s], r.v[3]), r.n)

close_directive(ts, i) ==
    CloseOf(LineThenMetadata(ThenSel(Dated(ts, i, "Close"), ts, "Account"), ts))

CommodityOf(r) ==
    IF ~r.ok THEN r
    ELSE POk(Directive(r.v[1].ymd, "Commodity", [commodity |-> r.v[2].s], r.v[3]), r.n)

commodity_directive(ts, i) ==
    CommodityOf(LineThenMetadata(
        ThenSel(Dated(ts, i, "CommodityDirective"), ts, "Commodity"), ts))

PadOf(r) ==
    IF ~r.ok THEN r
    ELSE POk(Directive(r.v[1].ymd, "Pad",
                       [account |-> r.v[2].s, source_account |-> r.v[3].s], r.v[4]),
             r.n)

pad_directive(ts, i) ==
    PadOf(LineThenMetadata(
        ThenSel(ThenSel(Dated(ts, i, "Pad"), ts, "Account"), ts, "Account"), ts))

BalanceOf(r) ==
    IF ~r.ok THEN r
    ELSE POk(Directive(r.v[1].ymd, "Balance",
                       [account |-> r.v[2].s, amount |-> r.v[3].amount,
                        tolerance |-> r.v[3].tolerance, diff_amount |-> None],
                       r.v[4]), r.n)

balance_directive(ts, i) ==
    BalanceOf(LineThenMetadata(
        ThenAmountTolerance(ThenSel(Dated(ts, i, "Balance"), ts, "Account"), ts), ts))

\* Valid flags: 'txn' (read as '*'), ! & # ? % * and capitals
FlagTokens ==
    << <<"Transaction", "*">>, <<"Exclamation", "!">>, <<"Ampersand", "&">>,
       <<"Hash", "#">>, <<"Question", "?">>, <<"Percent", "%">>,
       <<"Asterisk", "*">> >>

FlagChar(kind) ==
    FlagTokens[CHOOSE k \in 1..Len(FlagTokens) : FlagTokens[k][1] = kind][2]

IsFlag(ts, i) == \E k \in 1..Len(FlagTokens) : FlagTokens[k][1] = Kind(ts, i)

flag(ts, i) ==
    IF IsFlag(ts, i) THEN POk(FlagChar(Kind(ts, i)), i + 1)
    ELSE IF Kind(ts, i) = "Capital" THEN POk(ts[i].v.s[1], i + 1)
    ELSE PFail

ThenFlag(r, ts) == IF ~r.ok THEN r ELSE Push(r, flag(ts, r.n))

\* flag.or_not()
OrNone(f, i) == IF f.ok THEN POk(<<Some(f.v)>>, f.n) ELSE POk(<<None>>, i)

Posting(account, units, cost, price, fl, meta) ==
    [account |-> account, units |-> units, cost |-> cost, price |-> price,
     flag |-> fl, meta |-> meta]

PostingOf(r) ==
    IF ~r.ok THEN r
    ELSE POk([item |-> "Posting",
              p |-> Posting(r.v[2].s, None, None, None, r.v[1], EmptyMeta),
              k |-> <<>>, v |-> Metadata("None", NoVal)], r.n)

\* flag? account end_of_line
posting(ts, i) == PostingOf(ThenEol(ThenSel(OrNone(flag(ts, i), i), ts, "Account"), ts))

MetadataItem(l) ==
    IF ~l.ok THEN l
    ELSE POk([item |-> "Metadata",
              p |-> Posting(<<>>, None, None, None, None, EmptyMeta),
              k |-> l.v.k, v |-> l.v.v], l.n)

\* posting, or else metadata_line
posting_or_metadata(ts, i) ==
    OrElse(posting(ts, i), MetadataItem(metadata_line(ts, i)))

\* posting_or_metadata.repeated()
RECURSIVE PostingItems(_, _, _)
RECURSIVE PostingItemsStep(_, _, _, _)
PostingItemsStep(it, ts, i, acc) ==
    IF it.panic THEN it
    ELSE IF ~it.ok THEN POk(acc, i)
    ELSE PostingItems(ts, it.n, Append(acc, it.v))

PostingItems(ts, i, acc) == PostingItemsStep(posting_or_metadata(ts, i), ts, i, acc)

ThenPostingItems(r, ts) == IF ~r.ok THEN r ELSE Push(r, PostingItems(ts, r.n, <<>>))

\* A loop in which every metadata line goes to the transaction's meta.
MetaToTransaction(st, item) ==
    IF item.item = "Posting"
    THEN [st EXCEPT !.postings = IF st.current.some
                                 THEN Append(st.postings, st.current.v)
                                 ELSE st.postings,
                    !.current = Some(item.p)]
    ELSE [st EXCEPT !.tx_meta = MetaInsert(@, item.k, item.v)]

\* The closure's loop over the items after a transaction's header: a state
\* is the transaction's meta, the postings pushed so far and current_posting.
TxFoldStep(st, item) ==
    IF item.item = "Posting"
    THEN [st EXCEPT !.postings = IF st.current.some
                                 THEN Append(st.postings, st.current.v)
                                 ELSE st.postings,
                    !.current = Some(item.p)]
    ELSE IF st.current.some
         THEN [st EXCEPT !.current =
                   Some([st.current.v EXCEPT !.meta = MetaInsert(@, item.k, item.v)])]
         ELSE [st EXCEPT !.tx_meta = MetaInsert(@, item.k, item.v)]

RECURSIVE TxFold(_, _, _)
TxFold(st, items, k) ==
    IF k > Len(items) THEN st ELSE TxFold(TxFoldStep(st, items[k]), items, k + 1)

\* An exit from the loop that leaves the posting that is still current.
DropCurrent(st) == [tx_meta |-> st.tx_meta, postings |-> st.postings]

\* The push, after the loop, of the posting that is still current.
PushCurrent(st) ==
    [tx_meta |-> st.tx_meta,
     postings |-> IF st.current.some THEN Append(st.postings, st.current.v)
                  ELSE st.postings]

TxAssemble(items) ==
    PushCurrent(TxFold([tx_meta |-> EmptyMeta, postings |-> <<>>, current |-> None],
                       items, 1))

\* Two strings are payee and narration; one string is the narration.
PayeeNarration(str_a, str_b) ==
    IF str_a.some /\ str_b.some THEN [payee |-> str_a, narration |-> str_b]
    ELSE IF str_a.some THEN [payee |-> None, narration |-> str_a]
    ELSE [payee |-> None, narration |-> None]

TransactionFrom(date, fl, pn, tx, n) ==
    POk(Directive(date, "Transaction",
                  [flag |-> Some(fl), payee |-> pn.payee, narration |-> pn.narration,
                   tags |-> {}, links |-> {}, postings |-> tx.postings],
                  tx.tx_meta), n)

TransactionOf(r) ==
    IF ~r.ok THEN r
    ELSE TransactionFrom(r.v[1].ymd, r.v[2], PayeeNarration(r.v[3], r.v[4]),
                         TxAssemble(r.v[5]), r.n)

\* date flag string? string? end_of_line posting_or_metadata*
TransactionLines(ts, i) ==
    ThenPostingItems(
        ThenEol(ThenOptString(ThenOptString(ThenFlag(ThenSel(Begin(i), ts, "Date"), ts),
                                            ts), ts), ts), ts)

\* The lines, mapped by the closure.
transaction_directive(ts, i) == TransactionOf(TransactionLines(ts, i))

\* date keyword account string tags_links EOL metadata?
AccountString(ts, i, keyword) ==
    LineThenMetadata(
        ThenTagsLinks(ThenSel(ThenSel(Dated(ts, i, keyword), ts, "Account"),
                              ts, "String"), ts), ts)

NoteOf(r) ==
    IF ~r.ok THEN r
    ELSE POk(Directive(r.v[1].ymd, "Note",
                       [account |-> r.v[2].s, comment |-> r.v[3].s,
                        tags |-> r.v[4].tags, links |-> r.v[4].links], r.v[5]), r.n)

note_directive(ts, i) == NoteOf(AccountString(ts, i, "Note"))

\* date keyword string string EOL metadata?
TwoStrings(ts, i, keyword) ==
    LineThenMetadata(
        ThenSel(ThenSel(Dated(ts, i, keyword), ts, "String"), ts, "String"), ts)

EventOf(r) ==
    IF ~r.ok THEN r
    ELSE POk(Directive(r.v[1].ymd, "Event",
                       [kind |-> r.v[2].s, description |-> r.v[3].s], r.v[4]), r.n)

event_directive(ts, i) == EventOf(TwoStrings(ts, i, "Event"))

QueryOf(r) ==
    IF ~r.ok THEN r
    ELSE POk(Directive(r.v[1].ymd, "Query",
                       [name |-> r.v[2].s, query |-> r.v[3].s], r.v[4]), r.n)

query_directive(ts, i) == QueryOf(TwoStrings(ts, i, "Query"))

PriceOf(r) ==
    IF ~r.ok THEN r
    ELSE POk(Directive(r.v[1].ymd, "Price",
                       [commodity |-> r.v[2].s, amount |-> r.v[3]], r.v[4]), r.n)

price_directive(ts, i) ==
    PriceOf(LineThenMetadata(
        ThenAmount(ThenSel(Dated(ts, i, "Price"), ts, "Commodity"), ts), ts))

DocumentOf(r) ==
    IF ~r.ok THEN r
    ELSE POk(Directive(r.v[1].ymd, "Document",
                       [account |-> r.v[2].s, filename |-> r.v[3].s,
                        tags |-> r.v[4].tags, links |-> r.v[4].links], r.v[5]), r.n)

document_directive(ts, i) == DocumentOf(AccountString(ts, i, "Document"))

\* metadata_value.repeated()
RECURSIVE MetadataValues(_, _, _)
RECURSIVE MetadataValuesStep(_, _, _, _)
MetadataValuesStep(v, ts, i, acc) ==
    IF v.panic THEN v
    ELSE IF ~v.ok THEN POk(acc, i)
    ELSE MetadataValues(ts, v.n, Append(acc, v.v))

MetadataValues(ts, i, acc) == MetadataValuesStep(metadata_value(ts, i), ts, i, acc)

ThenMetadataValues(r, ts) == IF ~r.ok THEN r ELSE Push(r, MetadataValues(ts, r.n, <<>>))

CustomOf(r) ==
    IF ~r.ok THEN r
    ELSE POk(Directive(r.v[1].ymd, "Custom", [kind |-> r.v[2].s, values |-> r.v[3]],
                       r.v[4]), r.n)

custom_directive(ts, i) ==
    CustomOf(LineThenMetadata(
        ThenMetadataValues(ThenSel(Dated(ts, i, "Custom"), ts, "String"), ts), ts))

\* choice((...)): the first alternative that succeeds; a panic in an
\* alternative's closure ends the parse.
DirectiveChoice(ts, i) ==
    OrElse(open_directive(ts, i), OrElse(close_directive(ts, i),
    OrElse(commodity_directive(ts, i), OrElse(pad_directive(ts, i),
    OrElse(balance_directive(ts, i), OrElse(transaction_directive(ts, i),
    OrElse(note_directive(ts, i), OrElse(event_directive(ts, i),
    OrElse(query_directive(ts, i), OrElse(price_directive(ts, i),
    OrElse(document_directive(ts, i), custom_directive(ts, i))))))))))))

FilenameKey == <<"f", "i", "l", "e", "n", "a", "m", "e">>
LinenoKey == <<"l", "i", "n", "e", "n", "o">>

\* A closure that inserts filename and lineno only under keys the
\* directive's metadata block left free.
InsertIfAbsent(m, k, v) == IF MetaHas(m, k) THEN m ELSE MetaInsert(m, k, v)

KeepSuppliedKeys(d, filename, lineno) ==
    [d EXCEPT !.meta =
        InsertIfAbsent(InsertIfAbsent(@, FilenameKey, Metadata("String", StrVal(filename))),
                       LinenoKey, Metadata("Number", DecVal(Dec(lineno, 0))))]

\* The map_with_span closure: the directive with filename and lineno
\* inserted into its meta.
InjectProvenance(d, filename, lineno) ==
    [d EXCEPT !.meta =
        MetaInsert(MetaInsert(@, FilenameKey, Metadata("String", StrVal(filename))),
                   LinenoKey, Metadata("Number", DecVal(Dec(lineno, 0))))]

(***************************************************************************)
(* parse_str's line table.                                                 *)
(***************************************************************************)

\* The byte offset of the character at index p in the UTF-8 text.
RECURSIVE ByteOffset(_, _)
ByteOffset(src, p) ==
    IF p <= 1 THEN 0 ELSE ByteOffset(src, p - 1) + Utf8Len(src[p - 1])

NewlineIndexes(src) == {p \in 1..Len(src) : src[p] = "\n"}

\* line_map: the byte offset of the k-th "\n" maps to k.
LineMap(src) ==
    {[offset |-> ByteOffset(src, p),
      line |-> Cardinality({q \in NewlineIndexes(src) : q <= p})] :
        p \in NewlineIndexes(src)}

\* The entry with the greatest offset.
LastEntry(entries) == CHOOSE e \in entries : \A o \in entries : o.offset <= e.offset

LineOfLast(before) == IF before = {} THEN 1 ELSE LastEntry(before).line

\* line_lookup: the line of the last entry at or before pos, or 1.
line_lookup(line_map, pos) == LineOfLast({e \in line_map : e.offset <= pos})

Injected(d, filename, lineno) ==
    IF ~d.ok THEN d ELSE POk(InjectProvenance(d.v, filename, lineno), d.n)

\* The directive choice with its span: the span starts where the first
\* token of the directive, its date, starts.
directive(ts, i, filename, line_map) ==
    Injected(DirectiveChoice(ts, i), filename,
             IF i <= Len(ts) THEN line_lookup(line_map, ts[i].start) ELSE 1)

\* choice((option, plugin, include, directive))
statement(ts, i, filename, line_map) ==
    OrElse(option(ts, i), OrElse(plugin(ts, i), OrElse(include(ts, i),
           directive(ts, i, filename, line_map))))

\* just(Token::Newline).repeated()
RECURSIVE SkipNewlines(_, _)
SkipNewlines(ts, i) ==
    IF Kind(ts, i) = "Newline" THEN SkipNewlines(ts, i + 1) ELSE i

\* statement.padded_by(newlines).repeated().then_ignore(end()) under
\* parse_recovery: the repetition stops at the first iteration that fails and
\* rewinds to its start; end() fails unless every token was consumed, and
\* the parser, which has no recovery strategy, then returns no output.
RECURSIVE ParseLoop(_, _, _, _, _)
RECURSIVE ParseStep(_, _, _, _, _, _, _)
ParseStep(st, ts, i, j, filename, line_map, acc) ==
    IF st.panic THEN [panic |-> TRUE]
    ELSE IF st.ok
         THEN ParseLoop(ts, SkipNewlines(ts, st.n), filename, line_map,
                        [stmts |-> Append(acc.stmts, st.v),
                         starts |-> Append(acc.starts, ts[j].start)])
    ELSE IF i > Len(ts)
         THEN [panic |-> FALSE, statements |-> Some(acc.stmts),
               starts |-> acc.starts, errs |-> <<>>]
    ELSE [panic |-> FALSE, statements |-> None, starts |-> <<>>,
          errs |-> <<ParseError>>]

\* One iteration from i: the statement starts at j, after the newlines.
ParseAt(ts, i, j, filename, line_map, acc) ==
    ParseStep(statement(ts, j, filename, line_map), ts, i, j, filename, line_map, acc)

ParseLoop(ts, i, filename, line_map, acc) ==
    ParseAt(ts, i, SkipNewlines(ts, i), filename, line_map, acc)

parser(ts, filename, line_map) ==
    ParseLoop(ts, 1, filename, line_map, [stmts |-> <<>>, starts |-> <<>>])

(***************************************************************************)
(* The inputs of parse_str: a file name and a source text.  A source text  *)
(* is up to MaxLines lines, joined by "\n", drawn from lines of the kinds  *)
(* a ledger holds.                                                         *)
(***************************************************************************)

MaxLines == 3

DateText == <<"2", "0", "2", "5", "-", "0", "1", "-", "0", "1">>
CloseText == DateText \o <<" ", "c", "l", "o", "s", "e", " ", "A", ":", "B">>
CommentText == <<";", " ", "c">>

LineTemplates ==
    { <<>>,
      CloseText,
      CloseText \o <<" ">> \o CommentText,
      CommentText,
      <<" ", "f", "i", "l", "e", "n", "a", "m", "e", ":", " ", "\"", "u", "\"">>,
      <<" ", "l", "i", "n", "e", "n", "o", ":", " ", "\"", "u", "\"">>,
      DateText \o <<" ", "t", "x", "n", " ", "\"", "p", "\"", " ", "\"", "n", "\"">>,
      <<" ", "L", ":", "C", " ", "-", "3", "7", ".", "4", "5", " ", "U", "S", "D">>,
      <<" ", "E", ":", "R">>,
      <<"$", " ", "c", "l", "o", "s", "e">>,
      <<"i", "n", "c", "l", "u", "d", "e", " ", "\"", CJKZhong, "\"">> }

RECURSIVE JoinLines(_, _)
JoinLines(ls, k) ==
    IF k > Len(ls) THEN <<>>
    ELSE IF k = Len(ls) THEN ls[k]
    ELSE ls[k] \o <<"\n">> \o JoinLines(ls, k + 1)

\* The sources of up to MaxLines lines.
Ledgers ==
    {JoinLines(ls, 1) : ls \in UNION {[1..n -> LineTemplates] : n \in 0..MaxLines}}

\* A transaction line DATE <flag> "n" for each flag character of the
\* parser's flag, a Latin capital, a caseless letter, and the txn keyword.
FlagMarks ==
    { <<"!">>, <<"&">>, <<"#">>, <<"?">>, <<"%">>, <<"*">>, <<"P">>,
      <<CJKZhong>>, <<"t", "x", "n">> }

FlagLine(mark) == DateText \o <<" ">> \o mark \o <<" ", "\"", "n", "\"">>

FlagLines == {FlagLine(mark) : mark \in FlagMarks}

\* An open directive DATE open A:B "<booking>" for two booking methods and a
\* string that names none.
BookingTexts == { <<"N", "O", "N", "E">>, <<"F", "I", "F", "O">>, <<"X">> }

OpenLine(booking) ==
    DateText \o <<" ", "o", "p", "e", "n", " ", "A", ":", "B", " ", "\"">>
             \o booking \o <<"\"">>

OpenLines == {OpenLine(booking) : booking \in BookingTexts}

\* An open directive whose date has the shape of a date and names no day of
\* the calendar.
InvalidDates ==
    { <<"2", "0", "2", "5", "-", "1", "3", "-", "4", "0">>,
      <<"2", "0", "2", "5", "/", "0", "2", "/", "3", "0">> }

InvalidDateLine(date) ==
    date \o <<" ", "o", "p", "e", "n", " ", "A", ":", "B", " ", "U", "S", "D">>

InvalidDateLines == {InvalidDateLine(date) : date \in InvalidDates}

\* One-line statements, and each of them with one more string on its line.
StatementLines ==
    { <<"o", "p", "t", "i", "o", "n", " ", "\"", "a", "\"", " ", "\"", "b", "\"">>,
      <<"p", "l", "u", "g", "i", "n", " ", "\"", "a", "\"", " ", "\"", "b", "\"">>,
      <<"i", "n", "c", "l", "u", "d", "e", " ", "\"", "f", "\"">>,
      CloseText }

Trailed(line) == line \o <<" ", "\"", "c", "\"">>

TrailedLines == {Trailed(line) : line \in StatementLines}

\* A directive line followed by a metadata block of one or two lines, the
\* last line ended by a newline or by the end of the text.  A metadata line
\* is given with its key and the value it states.
BlockHeads ==
    { CloseText,
      DateText \o <<" ", "c", "o", "m", "m", "o", "d", "i", "t", "y", " ", "U", "S", "D">> }

MetaLines ==
    { [text |-> <<" ", "k", ":", " ", "\"", "u", "\"">>,
       key |-> <<"k">>, value |-> Metadata("String", StrVal(<<"u">>))],
      [text |-> <<" ", "k", ":", " ", "A", ":", "B">>,
       key |-> <<"k">>, value |-> Metadata("Account", StrVal(<<"A", ":", "B">>))],
      [text |-> <<" ", "n", ":", " ", "1", ".", "5">>,
       key |-> <<"n">>, value |-> Metadata("Number", DecVal(Dec(15, 1)))],
      [text |-> <<" ", "f", "i", "l", "e", "n", "a", "m", "e", ":", " ", "\"", "u", "\"">>,
       key |-> FilenameKey, value |-> Metadata("String", StrVal(<<"u">>))],
      [text |-> <<" ", "l", "i", "n", "e", "n", "o", ":", " ", "1", ".", "5">>,
       key |-> LinenoKey, value |-> Metadata("Number", DecVal(Dec(15, 1)))] }

Blocks == UNION {[1..n -> MetaLines] : n \in 1..2}
BlockEnds == { <<>>, <<"\n">> }

BlockSource(head, block, end) ==
    JoinLines(<<head>> \o [k \in 1..Len(block) |-> block[k].text], 1) \o end

BlockSources ==
    {BlockSource(head, block, end) :
        head \in BlockHeads, block \in Blocks, end \in BlockEnds}

\* The texts of up to MaxNumberLen digits, commas and points, and a number
\* with a thousands separator beside the same number without it; all of them
\* within the range of Decimal.
MaxNumberLen == 5

NumberTexts ==
    UNION {[1..n -> {"0", "1", ",", "."}] : n \in 1..MaxNumberLen}
        \cup { <<"1", ",", "2", "3", "4", ".", "5">>, <<"1", "2", "3", "4", ".", "5">> }

\* The texts of up to MaxSkipLen characters of which "$" starts no token,
\* "1" starts a number and "\n" is a Newline.
MaxSkipLen == 4

SkipTexts == UNION {[1..n -> {"$", "1", "\n"}] : n \in 1..MaxSkipLen}

\* Lowercase-leading identifiers of up to MaxKeyLen characters, the
\* keywords, a keyword followed by "-1" and a lowercase letter outside
\* ASCII; each alone, followed by ":", and followed by ":" and a value.
MaxKeyLen == 3

KeywordTexts ==
    {DirectiveKeywords[k][1] : k \in 1..Len(DirectiveKeywords)}
        \cup {CommandKeywords[k][1] : k \in 1..Len(CommandKeywords)}

Identifiers ==
    UNION {{<<"k">> \o rest : rest \in [1..n -> {"a", "1", "-", "_"}]} : n \in 0..(MaxKeyLen - 1)}
        \cup KeywordTexts
        \cup { <<"t", "x", "n", "-", "1">>, <<EAcute>> }

\* Nothing, and the number 1 after a space.
KeyValueTexts == { <<>>, <<" ", "1">> }

KeyTexts ==
    Identifiers \cup {id \o <<":">> \o value : id \in Identifiers, value \in KeyValueTexts}

Sources ==
    Ledgers \cup FlagLines \cup OpenLines \cup InvalidDateLines
            \cup StatementLines \cup TrailedLines \cup BlockSources
            \cup NumberTexts \cup SkipTexts \cup KeyTexts

Filenames == { <<"t", "e", "s", "t">>, <<"a", ".", "b">> }

(***************************************************************************)
(* parse_str as a state machine: pc is the position in its body.           *)
(***************************************************************************)

VARIABLES pc, filename, src, line_map, tokens, errs, stdout, statements,
          parse_errs, spans, result

\* The operands and results of a call of Amount's arithmetic, and the tokens
\* and result of a call of expr_parser.
VARIABLES lhs, rhs, factor, added, subbed, scaled, restored
VARIABLES expr_tokens, expr_value

\* A call of transaction_directive: its tokens, the position in it, the
\* header and items parsed, the index of the item the closure's loop is at,
\* the loop's tx_meta, postings and current_posting, and the result.
VARIABLES tx_tokens, tx_pc, tx_lines, tx_item, tx_fold, tx_directive

amount_vars == <<lhs, rhs, factor, added, subbed, scaled, restored>>
expr_vars == <<expr_tokens, expr_value>>
tx_vars == <<tx_tokens, tx_pc, tx_lines, tx_item, tx_fold, tx_directive>>

vars == <<pc, filename, src, line_map, tokens, errs, stdout, statements,
          parse_errs, spans, result, amount_vars, expr_vars, tx_vars>>

\* No call of Amount's arithmetic, of expr_parser, of parse_str.
NoAmountCall ==
    /\ lhs = None /\ rhs = None /\ factor = None
    /\ added = None /\ subbed = None /\ scaled = None /\ restored = None

NoExprCall == expr_tokens = None /\ expr_value = None

NoFold == [tx_meta |-> EmptyMeta, postings |-> <<>>, current |-> None]

NoTxCall ==
    /\ tx_tokens = None /\ tx_pc = "idle" /\ tx_lines = None /\ tx_item = 0
    /\ tx_fold = NoFold /\ tx_directive = None

NoParseCall ==
    /\ pc = "idle" /\ filename = <<>> /\ src = <<>> /\ line_map = {}
    /\ tokens = None /\ errs = <<>>
    /\ stdout = [header |-> FALSE, lines |-> <<>>]
    /\ statements = None /\ parse_errs = <<>> /\ spans = <<>> /\ result = None

Init ==
    /\ filename \in Filenames
    /\ src \in Sources
    /\ pc = "line_map"
    /\ line_map = {}
    /\ tokens = None
    /\ errs = <<>>
    /\ stdout = [header |-> FALSE, lines |-> <<>>]
    /\ statements = None
    /\ parse_errs = <<>>
    /\ spans = <<>>
    /\ result = None
    /\ NoAmountCall
    /\ NoExprCall
    /\ NoTxCall

\* The loop over src.match_indices('\n') that fills line_map.
BuildLineMap ==
    /\ pc = "line_map"
    /\ line_map' = LineMap(src)
    /\ pc' = "lex"
    /\ UNCHANGED <<filename, src, tokens, errs, stdout, statements, parse_errs,
                   spans, result>>
    /\ UNCHANGED <<amount_vars, expr_vars, tx_vars>>

\* let (tokens, errs) = lexer().parse_recovery(src)
Lex ==
    /\ pc = "lex"
    /\ LET r == lexer(src) IN
         /\ tokens' = r.tokens
         /\ errs' = r.errs
    /\ pc' = "print"
    /\ UNCHANGED <<filename, src, line_map, stdout, statements, parse_errs,
                   spans, result>>
    /\ UNCHANGED <<amount_vars, expr_vars, tx_vars>>

\* The lines printed when the lexer gave tokens: a header, then a line for
\* each token.
PrintTokens ==
    /\ pc = "print"
    /\ stdout' = IF tokens.some
                 THEN [header |-> TRUE, lines |-> BareTokens(tokens.v)]
                 ELSE stdout
    /\ pc' = "parse"
    /\ UNCHANGED <<filename, src, line_map, tokens, errs, statements,
                   parse_errs, spans, result>>
    /\ UNCHANGED <<amount_vars, expr_vars, tx_vars>>

\* The assignments from the parser's result r.
Parsed(r) ==
    IF r.panic
    THEN /\ pc' = "panicked"
         /\ UNCHANGED <<statements, parse_errs, spans>>
    ELSE /\ statements' = r.statements
         /\ parse_errs' = r.errs
         /\ spans' = r.starts
         /\ pc' = "return"

\* The parser over the tokens when there are tokens, (None, []) when not;
\* a panic in one of the parser's closures unwinds out of parse_str.
Parse ==
    /\ pc = "parse"
    /\ IF ~tokens.some
       THEN /\ statements' = None
            /\ parse_errs' = <<>>
            /\ spans' = <<>>
            /\ pc' = "return"
       ELSE Parsed(parser(tokens.v, filename, line_map))
    /\ UNCHANGED <<filename, src, line_map, tokens, errs, stdout, result>>
    /\ UNCHANGED <<amount_vars, expr_vars, tx_vars>>

\* (statements, errs chained with parse_errs)
Return ==
    /\ pc = "return"
    /\ result' = Some([statements |-> statements, errors |-> errs \o parse_errs])
    /\ pc' = "done"
    /\ UNCHANGED <<filename, src, line_map, tokens, errs, stdout, statements,
                   parse_errs, spans>>
    /\ UNCHANGED <<amount_vars, expr_vars, tx_vars>>

Next == BuildLineMap \/ Lex \/ PrintTokens \/ Parse \/ Return

Spec == Init /\ [][Next]_vars

\* parse_str as a function of its arguments, for comparing two calls.
Returned(lx, r) ==
    IF ~lx.tokens.some THEN [panic |-> FALSE, statements |-> None, errors |-> lx.errs]
    ELSE IF r.panic THEN [panic |-> TRUE]
    ELSE [panic |-> FALSE, statements |-> r.statements, errors |-> lx.errs \o r.errs]

ParseTokens(lx, fname, text) ==
    Returned(lx, IF lx.tokens.some THEN parser(lx.tokens.v, fname, LineMap(text))
                 ELSE [panic |-> FALSE])

parse_str(fname, text) == ParseTokens(lexer(text), fname, text)

(***************************************************************************)
(* Amount's arithmetic, and a call of it as a state machine: the operands  *)
(* are chosen, one of add, sub and mul is called, and sub is called on the *)
(* sum that add returned.                                                  *)
(***************************************************************************)

\* Result<T>: Ok(v) and Err(e)
Ok(v) == [ok |-> TRUE, v |-> v]
Err(e) == [ok |-> FALSE, err |-> e]

\* BeanError::CommodityMismatch(lhs, rhs)
CommodityMismatch(l, r) == [error |-> "CommodityMismatch", lhs |-> l, rhs |-> r]

\* An add that does not compare the commodities.
AddUnchecked(a, b) == Ok(Amount(DecAdd(a.number, b.number), a.commodity))

add(a, b) ==
    IF a.commodity # b.commodity
    THEN Err(CommodityMismatch(a.commodity, b.commodity))
    ELSE Ok(Amount(DecAdd(a.number, b.number), a.commodity))

\* A sub that adds.
SubAdds(a, b) == add(a, b)

sub(a, b) ==
    IF a.commodity # b.commodity
    THEN Err(CommodityMismatch(a.commodity, b.commodity))
    ELSE Ok(Amount(DecSub(a.number, b.number), a.commodity))

mul(a, number) == Amount(DecMul(a.number, number), a.commodity)

\* #[derive(PartialEq)] on Amount: the numbers equal by value, the
\* commodities equal.
AmountEq(a, b) == DecEq(a.number, b.number) /\ a.commodity = b.commodity

MaxMantissa == 2
MaxScale == 1

\* The operands: Decimals of small mantissa and scale, on which Decimal's
\* +, - and * are exact and far from the end of its 96-bit mantissa.
Decimals == {Dec(m, sc) : m \in (-MaxMantissa)..MaxMantissa, sc \in 0..MaxScale}
Commodities == { <<"U", "S", "D">>, <<"C", "A", "D">> }
Amounts == {Amount(d, c) : d \in Decimals, c \in Commodities}

AmountInit ==
    /\ NoParseCall
    /\ NoExprCall
    /\ NoTxCall
    /\ lhs \in {Some(a) : a \in Amounts}
    /\ rhs \in {Some(a) : a \in Amounts}
    /\ factor \in {Some(d) : d \in Decimals}
    /\ added = None
    /\ subbed = None
    /\ scaled = None
    /\ restored = None

NotCalled == added = None /\ subbed = None /\ scaled = None

\* lhs.add(&rhs)
CallAdd ==
    /\ NotCalled
    /\ added' = Some(add(lhs.v, rhs.v))
    /\ UNCHANGED <<lhs, rhs, factor, subbed, scaled, restored>>
    /\ UNCHANGED <<pc, filename, src, line_map, tokens, errs, stdout, statements,
                   parse_errs, spans, result, expr_vars, tx_vars>>

\* lhs.sub(&rhs)
CallSub ==
    /\ NotCalled
    /\ subbed' = Some(sub(lhs.v, rhs.v))
    /\ UNCHANGED <<lhs, rhs, factor, added, scaled, restored>>
    /\ UNCHANGED <<pc, filename, src, line_map, tokens, errs, stdout, statements,
                   parse_errs, spans, result, expr_vars, tx_vars>>

\* lhs.mul(factor)
CallMul ==
    /\ NotCalled
    /\ scaled' = Some(mul(lhs.v, factor.v))
    /\ UNCHANGED <<lhs, rhs, factor, added, subbed, restored>>
    /\ UNCHANGED <<pc, filename, src, line_map, tokens, errs, stdout, statements,
                   parse_errs, spans, result, expr_vars, tx_vars>>

\* lhs.add(&rhs)?.sub(&rhs)
CallSubOnSum ==
    /\ added.some
    /\ added.v.ok
    /\ restored = None
    /\ restored' = Some(sub(added.v.v, rhs.v))
    /\ UNCHANGED <<lhs, rhs, factor, added, subbed, scaled>>
    /\ UNCHANGED <<pc, filename, src, line_map, tokens, errs, stdout, statements,
                   parse_errs, spans, result, expr_vars, tx_vars>>

AmountNext == CallAdd \/ CallSub \/ CallMul \/ CallSubOnSum

AmountSpec == AmountInit /\ [][AmountNext]_vars

(***************************************************************************)
(* A call of expr_parser on a token sequence, as the tests make it.        *)
(***************************************************************************)
MaxExprLen == 5

\* 2, 3.0 and 4.00
ExprOperands == {Dec(2, 0), Dec(30, 1), Dec(400, 2)}
Operators == {"Plus", "Minus", "Asterisk", "Slash"}

DecimalToken(d) == [t |-> "Decimal", v |-> DecVal(d)]
Mark(kind) == [t |-> kind, v |-> NoVal]

\* The sequences of up to MaxExprLen operands and operators.
FlatExprs ==
    UNION {[1..n -> {DecimalToken(d) : d \in ExprOperands} \cup {Mark(k) : k \in Operators}]
               : n \in 1..MaxExprLen}

\* a op (b op c), (a op b) op c and sign (a op b)
GroupedExprs ==
    UNION {
        { <<DecimalToken(a), Mark(o), Mark("LeftParen"), DecimalToken(b), Mark(q),
            DecimalToken(c), Mark("RightParen")>>,
          <<Mark("LeftParen"), DecimalToken(a), Mark(o), DecimalToken(b),
            Mark("RightParen"), Mark(q), DecimalToken(c)>>,
          <<Mark(IF o \in {"Plus", "Asterisk"} THEN "Plus" ELSE "Minus"),
            Mark("LeftParen"), DecimalToken(a), Mark(q), DecimalToken(b),
            Mark("RightParen")>> }
        : a \in ExprOperands, b \in ExprOperands, c \in ExprOperands,
          o \in Operators, q \in Operators }

ExprInit ==
    /\ NoParseCall
    /\ NoAmountCall
    /\ NoTxCall
    /\ expr_tokens \in {Some(ts) : ts \in FlatExprs \cup GroupedExprs}
    /\ expr_value = None

\* expr_parser().parse(tokens)
CallExpr ==
    /\ expr_tokens.some
    /\ expr_value = None
    /\ expr_value' = Some(expr_parser(expr_tokens.v, 1))
    /\ UNCHANGED <<expr_tokens, amount_vars, tx_vars>>
    /\ UNCHANGED <<pc, filename, src, line_map, tokens, errs, stdout, statements,
                   parse_errs, spans, result>>

ExprNext == CallExpr

ExprSpec == ExprInit /\ [][ExprNext]_vars

(***************************************************************************)
(* A call of transaction_directive on a token sequence, step by step: the  *)
(* header and the items are parsed, the closure's loop takes the items one *)
(* by one, and after the loop the closure pushes the posting that is       *)
(* current and builds the directive.                                       *)
(***************************************************************************)
MaxItems == 3

StringToken(str) == [t |-> "String", v |-> StrVal(str)]
AccountToken(str) == [t |-> "Account", v |-> StrVal(str)]
KeyToken(str) == [t |-> "Key", v |-> StrVal(str)]
DateToken == [t |-> "Date", v |-> DateVal(<<2025, 1, 1>>)]

\* 2025-01-01 * "n" and 2025-01-01 ! "p" "n"
TxHeaders ==
    { <<DateToken, Mark("Asterisk"), StringToken(<<"n">>)>>,
      <<DateToken, Mark("Exclamation"), StringToken(<<"p">>), StringToken(<<"n">>)>> }

\* A:B and ! C:D
TxPostingLines ==
    { <<AccountToken(<<"A", ":", "B">>)>>,
      <<Mark("Exclamation"), AccountToken(<<"C", ":", "D">>)>> }

\* k: "u", k: A:B, m: "u" and filename: "u"
TxMetadataLines ==
    { <<KeyToken(<<"k">>), StringToken(<<"u">>)>>,
      <<KeyToken(<<"k">>), AccountToken(<<"A", ":", "B">>)>>,
      <<KeyToken(<<"m">>), StringToken(<<"u">>)>>,
      <<KeyToken(FilenameKey), StringToken(<<"u">>)>> }

RECURSIVE JoinTokenLines(_, _)
JoinTokenLines(ls, k) ==
    IF k > Len(ls) THEN <<>>
    ELSE IF k = Len(ls) THEN ls[k]
    ELSE ls[k] \o <<Mark("Newline")>> \o JoinTokenLines(ls, k + 1)

\* 2025-01-01 * "n" with the lines k: "u", A:B, k: A:B and ! C:D
MetaBeforeAndBetween ==
    JoinTokenLines(<< <<DateToken, Mark("Asterisk"), StringToken(<<"n">>)>>,
                      <<KeyToken(<<"k">>), StringToken(<<"u">>)>>,
                      <<AccountToken(<<"A", ":", "B">>)>>,
                      <<KeyToken(<<"k">>), AccountToken(<<"A", ":", "B">>)>>,
                      <<Mark("Exclamation"), AccountToken(<<"C", ":", "D">>)>> >>, 1)

\* A header and up to MaxItems posting and metadata lines, the last line
\* ended by a Newline or by the end of the tokens; a transaction of four
\* lines; and a header without a flag, which is no transaction.
Transactions ==
    {JoinTokenLines(<<h>> \o ls, 1) \o end :
        h \in TxHeaders,
        ls \in UNION {[1..n -> TxPostingLines \cup TxMetadataLines] : n \in 0..MaxItems},
        end \in { <<>>, <<Mark("Newline")>> }}
    \cup { MetaBeforeAndBetween,
           <<DateToken, StringToken(<<"n">>), Mark("Newline"), AccountToken(<<"A", ":", "B">>)>> }

TxInit ==
    /\ NoParseCall
    /\ NoAmountCall
    /\ NoExprCall
    /\ tx_tokens \in {Some(ts) : ts \in Transactions}
    /\ tx_pc = "parse"
    /\ tx_lines = None
    /\ tx_item = 0
    /\ tx_fold = NoFold
    /\ tx_directive = None

\* date.then(flag) ... .then(posting_or_metadata.repeated()): the closure
\* runs when the lines have parsed.
ParseLines ==
    /\ tx_pc = "parse"
    /\ tx_lines' = Some(TransactionLines(tx_tokens.v, 1))
    /\ IF tx_lines'.v.ok
       THEN tx_pc' = "fold" /\ tx_item' = 1 /\ tx_directive' = tx_directive
       ELSE tx_pc' = "done" /\ tx_item' = tx_item /\ tx_directive' = tx_lines'
    /\ UNCHANGED <<tx_tokens, tx_fold>>
    /\ UNCHANGED <<pc, filename, src, line_map, tokens, errs, stdout, statements,
                   parse_errs, spans, result, amount_vars, expr_vars>>

\* The item the loop is at.
ItemAt == tx_lines.v.v[5][tx_item]

InLoop == tx_pc = "fold" /\ tx_item <= Len(tx_lines.v.v[5])

\* PostingOrMetadata::Posting(p) => ...
FoldPosting ==
    /\ InLoop
    /\ ItemAt.item = "Posting"
    /\ tx_fold' = TxFoldStep(tx_fold, ItemAt)
    /\ tx_item' = tx_item + 1
    /\ UNCHANGED <<tx_tokens, tx_pc, tx_lines, tx_directive>>
    /\ UNCHANGED <<pc, filename, src, line_map, tokens, errs, stdout, statements,
                   parse_errs, spans, result, amount_vars, expr_vars>>

\* PostingOrMetadata::Metadata(k, v) => ...
FoldMetadata ==
    /\ InLoop
    /\ ItemAt.item = "Metadata"
    /\ tx_fold' = TxFoldStep(tx_fold, ItemAt)
    /\ tx_item' = tx_item + 1
    /\ UNCHANGED <<tx_tokens, tx_pc, tx_lines, tx_directive>>
    /\ UNCHANGED <<pc, filename, src, line_map, tokens, errs, stdout, statements,
                   parse_errs, spans, result, amount_vars, expr_vars>>

\* After the loop: current_posting.take() is pushed and the directive built.
Flushed(st) == [tx_meta |-> st.tx_meta, postings |-> st.postings, current |-> None]

BuildTransaction ==
    /\ tx_pc = "fold"
    /\ tx_item > Len(tx_lines.v.v[5])
    /\ tx_fold' = Flushed(PushCurrent(tx_fold))
    /\ tx_directive' = Some(TransactionFrom(tx_lines.v.v[1].ymd, tx_lines.v.v[2],
                                            PayeeNarration(tx_lines.v.v[3], tx_lines.v.v[4]),
                                            PushCurrent(tx_fold), tx_lines.v.n))
    /\ tx_pc' = "done"
    /\ UNCHANGED <<tx_tokens, tx_lines, tx_item>>
    /\ UNCHANGED <<pc, filename, src, line_map, tokens, errs, stdout, statements,
                   parse_errs, spans, result, amount_vars, expr_vars>>

TxNext == ParseLines \/ FoldPosting \/ FoldMetadata \/ BuildTransaction

TxSpec == TxInit /\ [][TxNext]_vars

(***************************************************************************)
(* Properties of parse_str, stated on the state in which it has returned.  *)
(***************************************************************************)
Done == pc = "done"

\* The statements returned, when a vector was returned.
ReturnedStatements == IF result.v.statements.some THEN result.v.statements.v ELSE <<>>

DirectiveIndexes ==
    {k \in 1..Len(ReturnedStatements) : ReturnedStatements[k].st = "Directive"}

Lineno(d) == MetaGet(d.meta, LinenoKey)

\* (Some(empty statement vector), empty error vector)
EmptyResult == Some([statements |-> Some(<<>>), errors |-> <<>>])

HasKeyToken(key) ==
    \E k \in 1..Len(tokens.v) : tokens.v[k].t = "Key" /\ tokens.v[k].v.s = key

HasProvenance(d) ==
    /\ Cardinality({x \in d.meta : x.k = FilenameKey}) = 1
    /\ MetaGet(d.meta, FilenameKey) = Metadata("String", StrVal(filename))
    /\ Cardinality({x \in d.meta : x.k = LinenoKey}) = 1
    /\ Lineno(d).t = "Number"
    /\ Lineno(d).v = DecVal(Dec(Lineno(d).v.d.m, 0))
    /\ Lineno(d).v.d.m >= 1

\* C1: every Directive that parse_str returns has meta["filename"] equal to
\* the filename argument, as a string, and a meta["lineno"] decimal, and
\* these are the only values under the two keys: a value the directive's own
\* metadata block supplied under filename or lineno is replaced.
C1_ProvenanceInjected ==
    Done => \A k \in DirectiveIndexes : HasProvenance(ReturnedStatements[k])

\* A returned directive whose source supplied both keys in a metadata block.
C1_SuppliedKeysReplaced ==
    /\ Done
    /\ DirectiveIndexes # {}
    /\ HasKeyToken(FilenameKey)
    /\ HasKeyToken(LinenoKey)

\* The 1-based physical line of the character at the 0-based offset start.
PhysicalLine(text, start) == 1 + Cardinality({p \in 1..start : text[p] = "\n"})

\* C2: for every directive returned, meta["lineno"] is the 1-based physical
\* line number of the line on which the directive's first token starts.
C2_LinenoIsPhysicalLine ==
    Done => \A k \in DirectiveIndexes :
                Lineno(ReturnedStatements[k]).v.d.m = PhysicalLine(src, spans[k])

\* The newline characters at or before the 0-based character offset start.
NewlinesAtOrBefore(text, start) ==
    Cardinality({p \in 1..Len(text) : text[p] = "\n" /\ p - 1 <= start})

AtLeastOne(n) == IF n = 0 THEN 1 ELSE n

\* C3: the lineno injected into a directive is the number of newline
\* characters at or before the start offset of the directive's first token,
\* and 1 when no newline precedes it.
C3_LinenoCountsNewlines ==
    Done => \A k \in DirectiveIndexes :
                Lineno(ReturnedStatements[k]).v.d.m
                    = AtLeastOne(NewlinesAtOrBefore(src, spans[k]))

\* The index after the next Newline at or after i.
RECURSIVE AfterNewline(_, _)
AfterNewline(ts, i) ==
    IF i > Len(ts) THEN i
    ELSE IF ts[i].t = "Newline" THEN i + 1
    ELSE AfterNewline(ts, i + 1)

\* The statement repetition with the recovery the specification states: a
\* statement that fails is recorded, the tokens up to the next Newline are
\* skipped and a fresh statement is tried.
RECURSIVE Recovering(_, _, _, _, _)
RECURSIVE RecoveringStep(_, _, _, _, _, _)
RecoveringStep(st, ts, j, fname, lmap, acc) ==
    IF st.ok
    THEN Recovering(ts, st.n, fname, lmap, [acc EXCEPT !.stmts = Append(@, st.v)])
    ELSE Recovering(ts, AfterNewline(ts, j), fname, lmap, [acc EXCEPT !.failed = TRUE])

RecoveringAt(ts, j, fname, lmap, acc) ==
    IF j > Len(ts) THEN acc
    ELSE RecoveringStep(statement(ts, j, fname, lmap), ts, j, fname, lmap, acc)

Recovering(ts, i, fname, lmap, acc) ==
    RecoveringAt(ts, SkipNewlines(ts, i), fname, lmap, acc)

\* Where a statement failed: the statements recovered, and an error.
ReturnsRecovered(rec) ==
    rec.failed => /\ result.v.statements = Some(rec.stmts)
                  /\ parse_errs # <<>>

\* C4: when a top-level statement fails to parse, the parser records an
\* error, skips to the next Newline and resumes, so parse_str returns
\* Some(vector) holding every well-formed statement before and after the
\* malformed line, together with the error.
C4_ParserRecovers ==
    (Done /\ tokens.some) =>
        ReturnsRecovered(Recovering(tokens.v, 1, filename, line_map,
                                    [stmts |-> <<>>, failed |-> FALSE]))

\* C5: the statement result is None only when the lexer produced no token
\* vector; whenever the lexer yields a token vector it is Some(vector).
C5_NoneOnlyWithoutTokens ==
    Done => (result.v.statements.some <=> tokens.some)

\* C6: parse_str on the empty source text returns
\* (Some(empty statement vector), empty error vector).
C6_EmptySource ==
    (Done /\ src = <<>>) => result = EmptyResult

\* parse_str has returned from the empty source text.
C6_EmptySourceReturned ==
    /\ Done
    /\ src = <<>>
    /\ result.some

\* Whether the text from p on holds only ';' comments, blank lines and
\* horizontal whitespace.
RECURSIVE OnlyTrivia(_, _)
OnlyTrivia(s, p) ==
    IF p > Len(s) THEN TRUE
    ELSE IF s[p] \in {" ", "\t", "\r", "\n"} THEN OnlyTrivia(s, p + 1)
    ELSE IF s[p] = ";"
         THEN FindNewline(s, p) = 0 \/ OnlyTrivia(s, FindNewline(s, p) + 1)
    ELSE FALSE

\* C7: for every source made only of ';' comment lines, blank lines and
\* horizontal whitespace, parse_str returns
\* (Some(empty statement vector), empty error vector).
C7_OnlyCommentsAndBlanks ==
    (Done /\ OnlyTrivia(src, 1)) => result = EmptyResult

\* The region of each character of a text: "string" within a string literal,
\* its quotes included, "comment" from a ';' up to its newline, the newline
\* not included, and "code" elsewhere.
RECURSIVE Regions(_, _, _, _)
Regions(s, p, mode, acc) ==
    IF p > Len(s) THEN acc
    ELSE IF mode = "comment"
         THEN IF s[p] = "\n" THEN Regions(s, p + 1, "code", Append(acc, "code"))
              ELSE Regions(s, p + 1, "comment", Append(acc, "comment"))
    ELSE IF mode = "string"
         THEN IF s[p] = "\\" /\ p < Len(s)
              THEN Regions(s, p + 2, "string", acc \o <<"string", "string">>)
              ELSE IF s[p] = "\""
                   THEN Regions(s, p + 1, "code", Append(acc, "string"))
              ELSE Regions(s, p + 1, "string", Append(acc, "string"))
    ELSE IF s[p] = ";" THEN Regions(s, p + 1, "comment", Append(acc, "comment"))
    ELSE IF s[p] = "\"" THEN Regions(s, p + 1, "string", Append(acc, "string"))
    ELSE Regions(s, p + 1, "code", Append(acc, "code"))

RegionsOf(s) == Regions(s, 1, "code", <<>>)

RECURSIVE Without(_, _, _, _, _)
Without(s, regions, region, p, acc) ==
    IF p > Len(s) THEN acc
    ELSE Without(s, regions, region, p + 1,
                 IF regions[p] = region THEN acc ELSE Append(acc, s[p]))

\* The text with every comment deleted and the comment's newline kept.
DeleteComments(s) == Without(s, RegionsOf(s), "comment", 1, <<>>)

\* Every comment of the text ends at a newline.
CommentsTerminated(s, regions) == s = <<>> \/ regions[Len(s)] # "comment"

SameTokens(a, b) ==
    /\ a.tokens.some = b.tokens.some
    /\ a.tokens.some => BareTokens(a.tokens.v) = BareTokens(b.tokens.v)

SameStatements(a, b) ==
    /\ a.panic = b.panic
    /\ ~a.panic => /\ a.statements.some = b.statements.some
                   /\ a.statements.some => a.statements.v = b.statements.v

\* C8: a ';' comment is lexically inert: the token sequence, spans ignored,
\* and the statement vector parse_str returns are those of the source with
\* the comment text deleted and its newline kept.
C8_CommentsInert ==
    (Done /\ CommentsTerminated(src, RegionsOf(src))) =>
            /\ SameTokens(lexer(src), lexer(DeleteComments(src)))
            /\ SameStatements(parse_str(filename, src),
                              parse_str(filename, DeleteComments(src)))

CodeBlanks(s, regions) ==
    {p \in 1..Len(s) : regions[p] = "code" /\ s[p] \in SafeWhitespace}

\* C9: replacing a space, tab or carriage return outside a string literal
\* by another of the three leaves the lexer's token sequence, spans ignored,
\* unchanged, also where the lexer recovers from an unrecognized character.
C9_BlankKindIrrelevant ==
    Done => \A p \in CodeBlanks(src, RegionsOf(src)) : \A c \in SafeWhitespace :
                SameTokens(lexer(src), lexer([src EXCEPT ![p] = c]))

TokenKinds == [k \in 1..Len(tokens.v) |-> tokens.v[k].t]

\* A transaction header with two strings, a posting line with units after
\* the account, a posting line with a bare account.
TransactionWithUnits ==
    <<"Date", "Transaction", "String", "String", "Newline",
      "Account", "Minus", "Decimal", "Commodity", "Newline", "Account">>

IsTransactionWithUnits ==
    /\ tokens.some
    /\ \/ TokenKinds = TransactionWithUnits
       \/ TokenKinds = Append(TransactionWithUnits, "Newline")

OneTransaction(d) ==
    /\ d.st = "Directive"
    /\ d.kind = "Transaction"
    /\ d.body.payee = Some(tokens.v[3].v.s)
    /\ d.body.narration = Some(tokens.v[4].v.s)
    /\ [k \in 1..Len(d.body.postings) |-> d.body.postings[k].account]
           = <<tokens.v[6].v.s, tokens.v[11].v.s>>

\* C10: a transaction header with two strings, followed by a posting line
\* that carries units after the account and a posting line with a bare
\* account, parses to exactly one Transaction whose payee is the first
\* string, whose narration is the second and whose postings are the two
\* accounts in source order.
C10_TransactionWithUnits ==
    (Done /\ IsTransactionWithUnits) =>
        /\ result.v.statements.some
        /\ Len(ReturnedStatements) = 1
        /\ OneTransaction(ReturnedStatements[1])

\* The flag a mark in the flag position stands for: '*' for txn, the mark's
\* character otherwise.
MarkFlag(mark) == IF mark = <<"t", "x", "n">> THEN "*" ELSE mark[1]

IsFlagged(d, fl) ==
    /\ d.st = "Directive"
    /\ d.kind = "Transaction"
    /\ d.body.flag = Some(fl)

\* C11: for each flag character of ! & # ? % *, for a single uppercase or
\* caseless letter, and for the keyword txn, the line DATE <flag> "narration"
\* parses to one Transaction directive whose flag is that character ('*' for
\* txn).
C11_FlagLineYieldsFlag ==
    \A mark \in FlagMarks :
        (Done /\ src = FlagLine(mark)) =>
            /\ result.v.statements.some
            /\ Len(ReturnedStatements) = 1
            /\ IsFlagged(ReturnedStatements[1], MarkFlag(mark))

\* C12: a string that names no booking method is converted into a typed
\* error, never an abort: parse_str of an open directive whose trailing
\* string is such a string does not panic, and returns with an error.
C12_UnknownBookingReported ==
    \A booking \in BookingTexts :
        (src = OpenLine(booking) /\ ~IsBookingMethod(booking)) =>
            /\ pc # "panicked"
            /\ Done => result.v.errors # <<>>

\* C16: a line whose leading text has the shape of a date and names no
\* calendar date yields no directive and exactly one error, raised by the
\* lexer for the date; no token is lexed out of the date's text.
C16_InvalidDateIsLexError ==
    \A date \in InvalidDates :
        (Done /\ src = InvalidDateLine(date)) =>
            /\ DirectiveIndexes = {}
            /\ result.v.errors = <<LexError>>
            /\ tokens.some =>
                   \A k \in 1..Len(tokens.v) : tokens.v[k].start >= Len(date)

\* C17: parse_str writes nothing to standard output, whatever its input: in
\* every state of a call the output is empty.
C17_NothingPrinted == ~stdout.header /\ stdout.lines = <<>>

\* Every statement the parser accepts in ts from i on ends behind a Newline
\* or at the end of the tokens.
RECURSIVE EndsAtEol(_, _, _, _)
EndsAtEolStep(st, ts, fname, lmap) ==
    st.ok => /\ st.n > Len(ts) \/ ts[st.n - 1].t = "Newline"
             /\ EndsAtEol(ts, st.n, fname, lmap)

EndsAtEolAt(ts, j, fname, lmap) ==
    j > Len(ts) \/ EndsAtEolStep(statement(ts, j, fname, lmap), ts, fname, lmap)

EndsAtEol(ts, i, fname, lmap) == EndsAtEolAt(ts, SkipNewlines(ts, i), fname, lmap)

\* C18: every statement ends at a Newline or at the end of input; a
\* statement followed on its line by a token its grammar has no place for is
\* not accepted with that token dropped, and a parse error is reported.
C18_StatementsEndAtEol ==
    (Done /\ tokens.some) =>
        /\ EndsAtEol(tokens.v, 1, filename, line_map)
        /\ src \in TrailedLines =>
               result.v.statements = None /\ parse_errs # <<>>

C18_TrailingStringRejected ==
    /\ Done
    /\ src \in TrailedLines
    /\ TokenKinds = <<"Option", "String", "String", "String">>
    /\ parse_errs = <<ParseError>>

\* The line k of a block is the last one that states its key.
LastOfKey(block, k) == \A j \in (k + 1)..Len(block) : block[j].key # block[k].key

\* The one statement returned is a directive whose meta maps the key of
\* every line of the block, the keys in Skipped aside, to the value its last
\* line states.
BlockAttached(block, Skipped) ==
    /\ result.v.statements.some
    /\ Len(ReturnedStatements) = 1
    /\ ReturnedStatements[1].st = "Directive"
    /\ \A k \in 1..Len(block) :
           (LastOfKey(block, k) /\ block[k].key \notin Skipped) =>
               /\ MetaHas(ReturnedStatements[1].meta, block[k].key)
               /\ MetaGet(ReturnedStatements[1].meta, block[k].key) = block[k].value

BlocksAttached(Skipped) ==
    \A head \in BlockHeads, block \in Blocks, end \in BlockEnds :
        (Done /\ src = BlockSource(head, block, end)) => BlockAttached(block, Skipped)

\* C19 as stated: a metadata block that directly follows a non-transaction
\* directive is attached to the directive's meta, every key mapped to its
\* parsed value, also when the end of input ends the last metadata line.
C19_EveryKeyAttached == BlocksAttached({})

\* C19: a metadata block that directly follows a non-transaction directive
\* is attached to the directive's meta, every key other than filename and
\* lineno mapped to its parsed value, also when the end of input ends the
\* last metadata line.
C19_BlockAttached == BlocksAttached({FilenameKey, LinenoKey})

C19_BlockEndedByEndOfInput ==
    /\ Done
    /\ \E head \in BlockHeads, block \in Blocks :
           /\ src = BlockSource(head, block, <<>>)
           /\ block[Len(block)].key = <<"n">>
    /\ MetaHas(ReturnedStatements[1].meta, <<"n">>)

\* text[lo..hi] is [0-9]+(,[0-9]+)*: digits and commas, a digit first and
\* last, no comma next to a comma.
IsGroupedDigits(text, lo, hi) ==
    /\ lo <= hi
    /\ text[lo] \in Digits
    /\ text[hi] \in Digits
    /\ \A k \in lo..hi : text[k] \in Digits \cup {","}
    /\ \A k \in lo..(hi - 1) : ~(text[k] = "," /\ text[k + 1] = ",")

\* text is [0-9]+(,[0-9]+)*(\.[0-9]*)?
IsNumberLiteral(text) ==
    \/ IsGroupedDigits(text, 1, Len(text))
    \/ \E p \in 2..Len(text) :
           /\ text[p] = "."
           /\ IsGroupedDigits(text, 1, p - 1)
           /\ \A k \in (p + 1)..Len(text) : text[k] \in Digits

CommasDeleted(text) == SelectSeq(text, LAMBDA c : c # ",")

OneDecimal(lx) ==
    /\ lx.tokens.some
    /\ Len(lx.tokens.v) = 1
    /\ lx.tokens.v[1].t = "Decimal"

\* C20: for a number literal [0-9]+(,[0-9]+)*(\.[0-9]*)? the lexer emits one
\* Decimal token, whose value is the value of the Decimal token it emits for
\* the literal with every comma deleted.
C20_CommasInert ==
    (pc \notin {"line_map", "lex"} /\ IsNumberLiteral(src)) =>
        /\ tokens.some
        /\ Len(tokens.v) = 1
        /\ tokens.v[1].t = "Decimal"
        /\ OneDecimal(lexer(CommasDeleted(src)))
        /\ DecEq(tokens.v[1].v.d, lexer(CommasDeleted(src)).tokens.v[1].v.d)

\* 1,234.5 is lexed to the Decimal 1234.5
C20_ThousandsLexed ==
    /\ pc = "print"
    /\ src = <<"1", ",", "2", "3", "4", ".", "5">>
    /\ tokens.some
    /\ tokens.v[1].v.d = Dec(12345, 1)

\* The lexer has returned.
Lexed == pc \in {"print", "parse", "return", "done", "panicked"}

\* A lexer that skips each character that starts no token, counts an error
\* for it, and goes on to the end of the text: the tokens and the number of
\* errors.
RECURSIVE SkipOnly(_, _, _, _)
RECURSIVE SkipOnlyStep(_, _, _, _, _)
SkipOnlyStep(t, s, q, toks, n) ==
    IF q > Len(s) THEN [tokens |-> toks, errors |-> n]
    ELSE IF t.ok THEN SkipOnly(s, t.n, Append(toks, [t |-> t.t, v |-> t.v]), n)
    ELSE SkipOnly(s, q + 1, toks, n + 1)

SkipOnlyAt(s, q, toks, n) == SkipOnlyStep(TokenAt(s, q), s, q, toks, n)

SkipOnly(s, p, toks, n) ==
    SkipOnlyAt(s, Scan(s, Comments(s, p), SafeWhitespace), toks, n)

LexedAs(toks, lex_errs, x) ==
    /\ toks.some
    /\ BareTokens(toks.v) = x.tokens
    /\ Len(lex_errs) = x.errors

\* C23: for every text the lexer returns, every character that starts no
\* token is skipped with one lexer error for it, and every token before and
\* after the skipped characters is emitted, in the order of the text, up to
\* its end.
C23_SkipsAndContinues == Lexed => LexedAs(tokens, errs, SkipOnly(src, 1, <<>>, 0))

\* The index of the character at byte offset off of the text, Len + 1 for
\* the end of the text; 0 when off is inside a character or past the end.
RECURSIVE CharIndexOf(_, _, _, _)
CharIndexOf(text, off, p, b) ==
    IF b = off THEN p
    ELSE IF b > off \/ p > Len(text) THEN 0
    ELSE CharIndexOf(text, off, p + 1, b + Utf8Len(text[p]))

\* The bytes start..end of the text are what the lexer read for the token.
LexedFrom(text, tok, t, e) ==
    /\ t.ok
    /\ t.t = tok.t
    /\ t.v = tok.v
    /\ t.n = e

IsByteSpan(text, tok, c, e) ==
    /\ c # 0
    /\ e # 0
    /\ LexedFrom(text, tok, TokenRecover(text, c), e)

ByteSpan(text, tok) ==
    IsByteSpan(text, tok, CharIndexOf(text, tok.start, 1, 0),
               CharIndexOf(text, tok.end, 1, 0))

\* The offset is the byte offset at which a token of the text starts.
StartsToken(text, c) == c # 0 /\ TokenRecover(text, c).ok

\* C24: the span of every token is the half-open range of byte offsets of
\* the text the lexer read for it, also after characters of more than one
\* byte; and every offset handed to the line lookup is, like the offsets of
\* the line map, the byte offset at which the statement starts.
C24_SpansAreByteOffsets ==
    (Lexed /\ tokens.some) =>
        /\ \A k \in 1..Len(tokens.v) : ByteSpan(src, tokens.v[k])
        /\ \A k \in 1..Len(spans) : StartsToken(src, CharIndexOf(src, spans[k], 1, 0))

IsIdentifier(text) ==
    /\ text # <<>>
    /\ text[1] \in Lowercase
    /\ \A k \in 2..Len(text) : text[k] \in Alphanumeric \cup {"-", "_"}

\* The text is an identifier, the ":" after it, and the value.
IsKeyText(text, value) ==
    /\ Len(text) > Len(value) + 1
    /\ SubSeq(text, Len(text) - Len(value) + 1, Len(text)) = value
    /\ text[Len(text) - Len(value)] = ":"
    /\ IsIdentifier(SubSeq(text, 1, Len(text) - Len(value) - 1))

\* The tokens of the value.
ValueTokens(value) ==
    IF value = <<>> THEN <<>> ELSE <<[t |-> "Decimal", v |-> DecVal(Dec(1, 0))]>>

KeyThenValue(text, value, toks, lex_errs) ==
    /\ toks.some
    /\ BareTokens(toks.v) =
          <<[t |-> "Key", v |-> StrVal(SubSeq(text, 1, Len(text) - Len(value) - 1))]>>
              \o ValueTokens(value)
    /\ lex_errs = <<>>

\* C25: a lowercase-leading identifier followed by ":" is lexed into one Key
\* token that holds the identifier, with no token for the colon, whatever
\* the identifier is; an identifier that no ":" follows gives no Key.
C25_KeyForEveryIdentifier ==
    Lexed =>
        /\ \A value \in KeyValueTexts :
              IsKeyText(src, value) => KeyThenValue(src, value, tokens, errs)
        /\ (IsIdentifier(src) /\ tokens.some) =>
              \A k \in 1..Len(tokens.v) : tokens.v[k].t # "Key"

(***************************************************************************)
(* Properties of Amount's arithmetic.                                      *)
(***************************************************************************)

\* What add and sub owe for the operands a and b: Err(CommodityMismatch(a's
\* commodity, b's commodity)) when the commodities differ, Ok of an Amount
\* in the common commodity when they are equal.
MismatchOrCommon(r, a, b) ==
    IF a.commodity # b.commodity
    THEN r = Err(CommodityMismatch(a.commodity, b.commodity))
    ELSE r.ok /\ r.v.commodity = a.commodity /\ r.v.commodity = b.commodity

\* C13: add and sub return Err(CommodityMismatch(lhs commodity, rhs
\* commodity)) exactly when the commodities differ and otherwise Ok of an
\* Amount in the common commodity; mul returns an Amount in the commodity of
\* its operand.
C13_MismatchExactlyWhenDifferent ==
    /\ added.some => MismatchOrCommon(added.v, lhs.v, rhs.v)
    /\ subbed.some => MismatchOrCommon(subbed.v, lhs.v, rhs.v)
    /\ scaled.some => scaled.v.commodity = lhs.v.commodity

C13_MismatchReturned ==
    /\ added.some
    /\ ~added.v.ok
    /\ lhs.v.commodity # rhs.v.commodity

NoValue == [def |-> FALSE, v |-> Dec(0, 0)]
Valued(d) == [def |-> TRUE, v |-> d]

RECURSIVE Depth(_, _)
Depth(ts, k) ==
    IF k = 0 THEN 0
    ELSE Depth(ts, k - 1) + (IF ts[k].t = "LeftParen" THEN 1
                               ELSE IF ts[k].t = "RightParen" THEN -1 ELSE 0)

\* The operators of the kinds K in ts[lo..hi] that stand after an operand,
\* outside the parentheses opened in ts[lo..hi].
BinaryAt(ts, lo, hi, K) ==
    {k \in (lo + 1)..(hi - 1) :
        /\ ts[k].t \in K
        /\ ts[k - 1].t \in {"Decimal", "RightParen"}
        /\ Depth(ts, k) = Depth(ts, lo - 1)}

Last(S) == CHOOSE k \in S : \A j \in S : j <= k

Combine(op, l, r) ==
    IF ~l.def \/ ~r.def THEN NoValue
    ELSE IF op = "Plus" THEN Valued(DecAdd(l.v, r.v))
    ELSE IF op = "Minus" THEN Valued(DecSub(l.v, r.v))
    ELSE IF op = "Asterisk" THEN Valued(DecMul(l.v, r.v))
    ELSE IF r.v.m = 0 THEN NoValue
    ELSE Valued(DecDiv(l.v, r.v))

Negated(x) == IF x.def THEN Valued(DecNeg(x.v)) ELSE x

RECURSIVE GrammarValue(_, _, _)
SplitAt(ts, lo, hi, k) ==
    Combine(ts[k].t, GrammarValue(ts, lo, k - 1), GrammarValue(ts, k + 1, hi))

GrammarValue(ts, lo, hi) ==
    IF lo > hi THEN NoValue
    ELSE IF BinaryAt(ts, lo, hi, {"Plus", "Minus"}) # {}
         THEN SplitAt(ts, lo, hi, Last(BinaryAt(ts, lo, hi, {"Plus", "Minus"})))
    ELSE IF BinaryAt(ts, lo, hi, {"Asterisk", "Slash"}) # {}
         THEN SplitAt(ts, lo, hi, Last(BinaryAt(ts, lo, hi, {"Asterisk", "Slash"})))
    ELSE IF ts[lo].t = "Minus" THEN Negated(GrammarValue(ts, lo + 1, hi))
    ELSE IF ts[lo].t = "Plus" THEN GrammarValue(ts, lo + 1, hi)
    ELSE IF ts[lo].t = "LeftParen" /\ ts[hi].t = "RightParen" /\ hi > lo
         THEN GrammarValue(ts, lo + 1, hi - 1)
    ELSE IF lo = hi /\ ts[lo].t = "Decimal" THEN Valued(ts[lo].v.d)
    ELSE NoValue

Evaluates(r, ts, x) ==
    x.def => r.ok /\ r.n = Len(ts) + 1 /\ DecEq(r.v, x.v)

\* C15: expr_parser evaluates a token sequence to the value the grammar
\* sum > product > unary > atom gives it: '*' and '/' bind tighter than
\* binary '+' and '-', signs tighter than both, binary operators of one level
\* associate to the left, a run of signs folds from the right, parentheses
\* override precedence.
C15_ValueOfGrammar ==
    expr_value.some =>
        Evaluates(expr_value.v, expr_tokens.v,
                  GrammarValue(expr_tokens.v, 1, Len(expr_tokens.v)))

\* 3.0 * (4.00 + 2) = 18.00
C15_ProductOfGroup ==
    /\ expr_value.some
    /\ expr_tokens.v = <<DecimalToken(Dec(30, 1)), Mark("Asterisk"), Mark("LeftParen"),
                         DecimalToken(Dec(400, 2)), Mark("Plus"),
                         DecimalToken(Dec(2, 0)), Mark("RightParen")>>
    /\ expr_value.v.ok
    /\ DecEq(expr_value.v.v, Dec(1800, 2))

(***************************************************************************)
(* Properties of the transaction's loop, stated on the token lines after   *)
(* the header: a line that starts with a Key is a metadata line, any other *)
(* a posting line.                                                         *)
(***************************************************************************)

\* The indexes at which the lines after the header start, and the n-th.
ItemStarts(ts) == {j + 1 : j \in {i \in 1..(Len(ts) - 1) : ts[i].t = "Newline"}}
ItemStart(ts, n) ==
    CHOOSE b \in ItemStarts(ts) : Cardinality({x \in ItemStarts(ts) : x <= b}) = n

\* The posting lines and the metadata lines among the first k lines.
PostingLinesTo(ts, k) == {n \in 1..k : ts[ItemStart(ts, n)].t # "Key"}
MetadataLinesTo(ts, k) == {n \in 1..k : ts[ItemStart(ts, n)].t = "Key"}

\* The n-th posting line, and what it states.
PostingLine(ts, n) ==
    CHOOSE l \in PostingLinesTo(ts, Cardinality(ItemStarts(ts))) :
        Cardinality(PostingLinesTo(ts, l)) = n
StatedAccount(ts, l) ==
    IF ts[ItemStart(ts, l)].t = "Account" THEN ts[ItemStart(ts, l)].v.s
    ELSE ts[ItemStart(ts, l) + 1].v.s
StatedFlag(ts, l) ==
    IF ts[ItemStart(ts, l)].t = "Exclamation" THEN Some("!") ELSE None

\* What metadata line l states, and the posting it follows: the number of
\* posting lines before it, 0 when there is none.
StatedKey(ts, l) == ts[ItemStart(ts, l)].v.s
StatedEntry(ts, l) ==
    [k |-> StatedKey(ts, l),
     v |-> Metadata(ts[ItemStart(ts, l) + 1].t, ts[ItemStart(ts, l) + 1].v)]
Follows(ts, l) == Cardinality(PostingLinesTo(ts, l))

\* The entries that the first k lines give the meta of posting number p (of
\* the transaction when p = 0): of the lines that follow p, for each key the
\* last one.
EntriesFor(ts, k, p) ==
    {StatedEntry(ts, l) :
        l \in {m \in MetadataLinesTo(ts, k) :
                  /\ Follows(ts, m) = p
                  /\ \A q \in MetadataLinesTo(ts, k) :
                        (q > m /\ Follows(ts, q) = p) => StatedKey(ts, q) # StatedKey(ts, m)}}

\* The postings the loop holds: those pushed, then current_posting.
Held(st) == st.postings \o (IF st.current.some THEN <<st.current.v>> ELSE <<>>)

\* The lines the loop has taken.
Taken == IF tx_pc = "fold" THEN tx_item - 1 ELSE Cardinality(ItemStarts(tx_tokens.v))

InClosure == tx_pc \in {"fold", "done"} /\ tx_lines.some /\ tx_lines.v.ok

MetasAre(ts, k, tx_meta, postings) ==
    /\ tx_meta = EntriesFor(ts, k, 0)
    /\ \A p \in 1..Follows(ts, k) :
          p <= Len(postings) /\ postings[p].meta = EntriesFor(ts, k, p)

PostingsAre(ts, postings, n) ==
    /\ Len(postings) = n
    /\ \A p \in 1..n :
          /\ postings[p].account = StatedAccount(ts, PostingLine(ts, p))
          /\ postings[p].flag = StatedFlag(ts, PostingLine(ts, p))

\* C22: for the posting and metadata lines after a transaction's header,
\* the postings vector holds one posting for each posting line, in the order
\* of the lines: at every step of the loop the vector holds the posting
\* lines taken but the last, which is current_posting, and the directive
\* built holds them all.
C22_OnePostingPerLine ==
    InClosure =>
        /\ PostingsAre(tx_tokens.v, Held(tx_fold), Follows(tx_tokens.v, Taken))
        /\ tx_pc = "fold" =>
              /\ tx_fold.current.some <=> Follows(tx_tokens.v, Taken) > 0
              /\ Len(tx_fold.postings) = MaxOf(Follows(tx_tokens.v, Taken) - 1, 0)
        /\ tx_pc = "done" =>
              /\ ~tx_fold.current.some
              /\ PostingsAre(tx_tokens.v, tx_directive.v.v.body.postings,
                             Follows(tx_tokens.v, Taken))

\* A transaction built from three posting lines, of which the first and the
\* last state the same account.
C22_RepeatedPostingKept ==
    /\ InClosure
    /\ tx_pc = "done"
    /\ Len(tx_directive.v.v.body.postings) = 3
    /\ tx_directive.v.v.body.postings[1].account = tx_directive.v.v.body.postings[3].account
    /\ tx_directive.v.v.body.postings[1].account # tx_directive.v.v.body.postings[2].account
====
